---- MODULE Spec2Model ----
(***************************************************************************)
(* A320 checklist companion: the flight-phase detector (PhaseDetector),    *)
(* the checklist store (ChecklistManager) and the handlers of main.py that *)
(* bind them (telemetry callback, REST endpoints, WebSocket messages).     *)
(***************************************************************************)
EXTENDS Integers, Sequences, FiniteSets, TLC

\* ------------------------------------------------------------------
\* Bounds of the exploration
\* ------------------------------------------------------------------

\* Number of handler invocations (polls, telemetry callbacks, requests)
\* explored from startup.
MaxOps == 3

\* ------------------------------------------------------------------
\* flight_state.py: constants, Phase, CHECKLIST_PHASES
\* ------------------------------------------------------------------

\* N1_RPM_SCALE = 163.84, kept as the integer 16384 = 163.84 * 100
N1_RPM_SCALE_X100 == 16384
N1_RUNNING_THRESHOLD == 15
CRUISE_ALT_THRESHOLD == 10000
APPROACH_AGL_THRESHOLD == 1000

\* Variant: the taxi-speed comparison written > instead of >=.
TaxiSpeedStrict == 10 + 1

TAXI_SPEED_KTS == 10
LANDING_SPEED_KTS == 30
PARKING_SPEED_KTS == 5
LEVEL_VS_THRESHOLD == 500

\* Variant: a descent threshold that a level flight already satisfies.
DescentVsLenient == LEVEL_VS_THRESHOLD - 400

DESCENT_VS_THRESHOLD == -500

CHECKLIST_PHASES ==
    << "cockpit_preparation", "before_start", "after_start", "taxi",
       "line_up", "after_takeoff", "cruise", "descent", "approach",
       "landing", "after_landing", "parking", "securing" >>

\* The values of the Phase enumeration (all of them carry a checklist).
Phase == { CHECKLIST_PHASES[i] : i \in 1..Len(CHECKLIST_PHASES) }

\* CHECKLIST_PHASES.index(p): position in the canonical ordering.
PhaseIndex(p) == CHOOSE i \in 1..Len(CHECKLIST_PHASES) : CHECKLIST_PHASES[i] = p

\* Strings a client may send as a phase that Phase(...) rejects (ValueError).
InvalidPhaseStrings == { "bogus" }

Abs(x) == IF x < 0 THEN -x ELSE x
Max(a, b) == IF a >= b THEN a ELSE b

\* FlightState(): the fields read by detect and by get_variable, defaults.
DefaultFlightState ==
    [ sim_on_ground    |-> TRUE,
      altitude_agl     |-> 0,
      altitude_msl     |-> 0,
      vertical_speed   |-> 0,
      ground_velocity  |-> 0,
      parking_brake    |-> TRUE,
      flaps_percent    |-> 0,
      eng1_combustion  |-> FALSE,
      eng2_combustion  |-> FALSE,
      eng1_n1          |-> 0,
      eng2_n1          |-> 0,
      eng1_n1_rpm      |-> 0,
      eng2_n1_rpm      |-> 0,
      light_beacon     |-> FALSE,
      light_landing    |-> FALSE ]

\* Variant: an N1 reading that ignores the raw-RPM value.
EngN1PercentOnly(n1, rpm) == n1 * N1_RPM_SCALE_X100

\* PhaseDetector._engines_running. N1 readings are compared after scaling
\* both sides by 163.84 * 100, which keeps rpm / 163.84 exact on integers.
EngN1Scaled(n1, rpm) ==
    Max(n1 * N1_RPM_SCALE_X100, IF rpm # 0 THEN rpm * 100 ELSE 0)

EnginesRunning(state) ==
    \/ EngN1Scaled(state.eng1_n1, state.eng1_n1_rpm)
          > N1_RUNNING_THRESHOLD * N1_RPM_SCALE_X100
    \/ EngN1Scaled(state.eng2_n1, state.eng2_n1_rpm)
          > N1_RUNNING_THRESHOLD * N1_RPM_SCALE_X100
    \/ state.eng1_combustion
    \/ state.eng2_combustion


\* Variant: a detector that derives the phase from the snapshot alone and
\* falls back to the first phase whenever the aircraft is cold and dark.
DetectStateless(cur, state) ==
    IF state.sim_on_ground /\ ~state.light_beacon /\ ~EnginesRunning(state)
    THEN "cockpit_preparation"
    ELSE cur

\* Variant: a detector that moves on by one phase, the last ones included,
\* on every snapshot whose beacon is off.
DetectStepping(cur, state) ==
    IF ~state.light_beacon /\ PhaseIndex(cur) < Len(CHECKLIST_PHASES)
    THEN CHECKLIST_PHASES[PhaseIndex(cur) + 1]
    ELSE cur

\* Variant: a detector that goes on to the next rule after a rule has
\* fired, so that a start with beacon and engines on skips before-start.
DetectFallingThrough(cur, state) ==
    IF cur = "cockpit_preparation" /\ state.light_beacon
    THEN IF EnginesRunning(state) THEN "after_start" ELSE "before_start"
    ELSE cur

\* Variant: a descent rule without the test altitude_msl > 0.
DetectNoZeroGuard(cur, state) ==
    CASE cur = "after_takeoff" ->
            IF /\ state.altitude_msl > CRUISE_ALT_THRESHOLD
               /\ Abs(state.vertical_speed) < LEVEL_VS_THRESHOLD
            THEN "cruise" ELSE cur
      [] cur = "cruise" ->
            IF /\ state.vertical_speed < DESCENT_VS_THRESHOLD
               /\ state.altitude_msl > CRUISE_ALT_THRESHOLD
            THEN "descent" ELSE cur
      [] cur = "descent" ->
            IF state.altitude_msl < CRUISE_ALT_THRESHOLD
            THEN "approach" ELSE cur
      [] OTHER -> cur

\* PhaseDetector.detect: the phase stored in _current_phase and returned,
\* from internal phase cur and snapshot state.
Detect(cur, state) ==
    CASE cur = "cockpit_preparation" ->
            IF state.light_beacon THEN "before_start" ELSE cur
      [] cur = "before_start" ->
            IF EnginesRunning(state) THEN "after_start" ELSE cur
      [] cur = "after_start" ->
            IF state.ground_velocity >= TAXI_SPEED_KTS THEN "taxi" ELSE cur
      [] cur = "taxi" ->
            IF state.light_landing THEN "line_up" ELSE cur
      [] cur = "line_up" ->
            IF ~state.sim_on_ground THEN "after_takeoff" ELSE cur
      [] cur = "after_takeoff" ->
            IF /\ state.altitude_msl > CRUISE_ALT_THRESHOLD
               /\ Abs(state.vertical_speed) < LEVEL_VS_THRESHOLD
            THEN "cruise" ELSE cur
      [] cur = "cruise" ->
            IF /\ state.vertical_speed < DESCENT_VS_THRESHOLD
               /\ state.altitude_msl > CRUISE_ALT_THRESHOLD
            THEN "descent" ELSE cur
      [] cur = "descent" ->
            IF /\ state.altitude_msl > 0
               /\ state.altitude_msl < CRUISE_ALT_THRESHOLD
            THEN "approach" ELSE cur
      [] cur = "approach" ->
            IF state.altitude_agl < APPROACH_AGL_THRESHOLD
            THEN "landing" ELSE cur
      [] cur = "landing" ->
            IF state.sim_on_ground /\ state.ground_velocity < LANDING_SPEED_KTS
            THEN "after_landing" ELSE cur
      [] cur = "after_landing" ->
            IF /\ state.ground_velocity < PARKING_SPEED_KTS
               /\ ~EnginesRunning(state)
            THEN "parking" ELSE cur
      [] cur = "parking" -> cur
      [] cur = "securing" -> cur
      [] OTHER -> cur

\* get_next_checklist_phase / get_prev_checklist_phase; "None" when absent.
get_next_checklist_phase(current) ==
    IF PhaseIndex(current) < Len(CHECKLIST_PHASES)
    THEN CHECKLIST_PHASES[PhaseIndex(current) + 1]
    ELSE "None"

get_prev_checklist_phase(current) ==
    IF PhaseIndex(current) > 1
    THEN CHECKLIST_PHASES[PhaseIndex(current) - 1]
    ELSE "None"

\* ------------------------------------------------------------------
\* Checklist definitions (data/*.json, loaded by _load_checklists)
\* ------------------------------------------------------------------

\* Items of the loaded checklists, as <<checklist id, item id>>.
ItemKeys ==
    { << "cockpit_preparation", "gear_pins" >>,
      << "before_start", "parking_brake" >>,
      << "before_start", "beacon" >>,
      << "taxi", "flaps" >>,
      << "approach", "transponder" >>,
      << "after_landing", "flaps_retracted" >>,
      << "parking", "parking_brake" >>,
      << "parking", "engines" >>,
      << "cockpit_preparation", "fuel" >>,
      << "cockpit_preparation", "baro_ref" >>,
      << "after_start", "pitch_trim" >>,
      << "taxi", "takeoff_speeds" >>,
      << "approach", "baro_ref_ldg" >> }

\* item.verify is set (the item carries a verification rule).
HasVerify(k) ==
    k[2] \in { "parking_brake", "beacon", "flaps", "flaps_retracted",
               "transponder", "engines" }

\* "___" in item.response_template
HasPlaceholder(k) ==
    k[2] \in { "fuel", "baro_ref", "pitch_trim", "takeoff_speeds",
               "baro_ref_ldg" }

\* The text of a response template after its placeholder, or the whole
\* text of a template that has none.
TemplateText(k) ==
    CASE k[2] = "fuel"           -> "KG"
      [] k[2] = "baro_ref"       -> "SET"
      [] k[2] = "baro_ref_ldg"   -> "SET"
      [] k[2] = "pitch_trim"     -> "% SET"
      [] k[2] = "takeoff_speeds" -> " SET"
      [] OTHER                   -> "CHECKED"

\* item.response_template
ResponseTemplate(k) ==
    IF HasPlaceholder(k) THEN "___" \o TemplateText(k) ELSE TemplateText(k)

\* item.verify["var"], item.verify["condition"], item.verify["value"]
VerifyVar(k) ==
    CASE k[2] = "parking_brake" -> "BRAKE_PARKING_POSITION"
      [] k[2] = "beacon"        -> "LIGHT_BEACON"
      [] k[2] = "flaps"         -> "TRAILING_EDGE_FLAPS_LEFT_PERCENT"
      [] k[2] = "flaps_retracted" -> "TRAILING_EDGE_FLAPS_LEFT_PERCENT"
      [] k[2] = "transponder"   -> "TRANSPONDER_STATE"
      [] k[2] = "engines"       -> "ENG_COMBUSTION"
      [] OTHER                  -> "None"

VerifyCondition(k) ==
    CASE k[2] = "flaps" -> "gte"
      [] k[2] = "flaps_retracted" -> "lte"
      [] OTHER          -> "eq"

VerifyValue(k) ==
    CASE k[2] = "parking_brake" -> TRUE
      [] k[2] = "beacon"        -> TRUE
      [] k[2] = "flaps"         -> 10
      [] k[2] = "flaps_retracted" -> 0
      [] k[2] = "transponder"   -> 4
      [] k[2] = "engines"       -> FALSE
      [] OTHER                  -> 0

\* ------------------------------------------------------------------
\* simconnect_client.py: get_variable
\* ------------------------------------------------------------------

\* SimConnectClient._engine_running(engine)
EngineRunning(state, engine) ==
    IF engine = 1
    THEN \/ EngN1Scaled(state.eng1_n1, state.eng1_n1_rpm)
               > N1_RUNNING_THRESHOLD * N1_RPM_SCALE_X100
         \/ state.eng1_combustion
    ELSE \/ EngN1Scaled(state.eng2_n1, state.eng2_n1_rpm)
               > N1_RUNNING_THRESHOLD * N1_RPM_SCALE_X100
         \/ state.eng2_combustion

\* The keys of var_map for which the model keeps the FlightState field;
\* get_variable returns None for any other name.
VarMapKeys ==
    { "BRAKE_PARKING_POSITION", "LIGHT_BEACON",
      "TRAILING_EDGE_FLAPS_LEFT_PERCENT", "LIGHT_LANDING",
      "ENG_COMBUSTION", "ENG_COMBUSTION_ANY" }

\* get_variable(var_name), for var_name in VarMapKeys.
GetVariable(state, var_name) ==
    CASE var_name = "BRAKE_PARKING_POSITION" -> state.parking_brake
      [] var_name = "LIGHT_BEACON" -> state.light_beacon
      [] var_name = "TRAILING_EDGE_FLAPS_LEFT_PERCENT" -> state.flaps_percent
      [] var_name = "LIGHT_LANDING" -> state.light_landing
      [] var_name = "ENG_COMBUSTION" ->
            EngineRunning(state, 1) /\ EngineRunning(state, 2)
      [] var_name = "ENG_COMBUSTION_ANY" ->
            EngineRunning(state, 1) \/ EngineRunning(state, 2)

\* main.py VERIFY_VARS, restricted to the variables the checklists above use.
VERIFY_VARS ==
    << "BRAKE_PARKING_POSITION", "LIGHT_BEACON",
       "TRAILING_EDGE_FLAPS_LEFT_PERCENT", "TRANSPONDER_STATE",
       "ENG_COMBUSTION" >>

\* ------------------------------------------------------------------
\* checklist_manager.py
\* ------------------------------------------------------------------


\* Variant: a comparison that drops a verification it has already granted.
CompareOnce(condition, value, expected, previous) ==
    IF previous = "True" THEN "False"
    ELSE IF condition = "eq" /\ value = expected THEN "True"
    ELSE IF condition = "gte" /\ value >= expected THEN "True"
    ELSE IF condition = "lte" /\ value <= expected THEN "True"
    ELSE "False"

\* The comparison of update_verification: "True"/"False", or the previous
\* value when the condition is none of the five operators.
Compare(condition, value, expected, previous) ==
    CASE condition = "eq"  -> IF value = expected THEN "True" ELSE "False"
      [] condition = "gte" -> IF value >= expected THEN "True" ELSE "False"
      [] condition = "lte" -> IF value <= expected THEN "True" ELSE "False"
      [] condition = "gt"  -> IF value > expected THEN "True" ELSE "False"
      [] condition = "lt"  -> IF value < expected THEN "True" ELSE "False"
      [] OTHER -> previous


\* Variant: update_verification that scans the departure checklists only.
UpdateVerificationDeparture(ver, var_name, value) ==
    [ k \in ItemKeys |->
        IF /\ HasVerify(k) /\ VerifyVar(k) = var_name
           /\ k[1] \in { "cockpit_preparation", "before_start", "taxi" }
        THEN Compare(VerifyCondition(k), value, VerifyValue(k), ver[k])
        ELSE ver[k] ]

\* ChecklistManager.update_verification(var_name, value) on the map of
\* the items' verified values.
UpdateVerification(ver, var_name, value) ==
    [ k \in ItemKeys |->
        IF HasVerify(k) /\ VerifyVar(k) = var_name
        THEN Compare(VerifyCondition(k), value, VerifyValue(k), ver[k])
        ELSE ver[k] ]

\* The loop of on_state_update over VERIFY_VARS[i..]: a variable whose
\* get_variable is None is skipped.
RECURSIVE VerifyFrom(_, _, _)
VerifyFrom(ver, state, i) ==
    IF i > Len(VERIFY_VARS) THEN ver
    ELSE VerifyFrom(
            IF VERIFY_VARS[i] \in VarMapKeys
            THEN UpdateVerification(ver, VERIFY_VARS[i],
                                    GetVariable(state, VERIFY_VARS[i]))
            ELSE ver,
            state, i + 1)


\* Variant: set_phase that never records the phase it leaves.
SetPhaseHistoryDropped(current, history, phase, record_history) == history

\* Variant: set_phase that appends without looking for an earlier entry.
SetPhaseHistoryNoCheck(current, history, phase, record_history) ==
    IF current # phase /\ record_history
    THEN Append(history, current)
    ELSE history

\* ChecklistManager.set_phase(phase, record_history): the new phase_history.
SetPhaseHistory(current, history, phase, record_history) ==
    IF current # phase
    THEN IF record_history /\ ~(\E i \in 1..Len(history) : history[i] = current)
         THEN Append(history, current)
         ELSE history
    ELSE history

\* ChecklistManager.set_phase(phase, record_history): the new current_phase.
SetPhaseCurrent(current, phase) ==
    IF current # phase THEN phase ELSE current

\* get_checklist(phase_id) and then get_item(item_id) both find something.
ItemFound(phase_id, item_id) ==
    \E k \in ItemKeys : k[1] = phase_id /\ k[2] = item_id


\* Variant: check_item that looks the item id up in every checklist.
CheckItemAnyChecklist(chk, phase_id, item_id) ==
    [ k \in ItemKeys |-> IF k[2] = item_id THEN TRUE ELSE chk[k] ]

\* ChecklistManager.check_item(phase_id, item_id): the items' checked flags.
CheckItem(chk, phase_id, item_id) ==
    [ k \in ItemKeys |->
        IF k[1] = phase_id /\ k[2] = item_id THEN TRUE ELSE chk[k] ]

\* ChecklistManager.uncheck_item(phase_id, item_id)
UncheckItem(chk, phase_id, item_id) ==
    [ k \in ItemKeys |->
        IF k[1] = phase_id /\ k[2] = item_id THEN FALSE ELSE chk[k] ]

\* ChecklistManager.toggle_item(phase_id, item_id)
ToggleItem(chk, phase_id, item_id) ==
    [ k \in ItemKeys |->
        IF k[1] = phase_id /\ k[2] = item_id THEN ~chk[k] ELSE chk[k] ]

\* ------------------------------------------------------------------
\* State
\* ------------------------------------------------------------------

\* ------------------------------------------------------------------
\* checklist_manager.py: flight-plan injection
\* ------------------------------------------------------------------

\* Three decimal digits of n, 0 <= n < 1000.
Pad3(n) ==
    IF n < 10 THEN "00" \o ToString(n)
    ELSE IF n < 100 THEN "0" \o ToString(n)
    ELSE ToString(n)

\* f"{v:,}" for an integer 0 <= v < 1000000.
FormatThousands(v) ==
    IF v >= 1000 THEN ToString(v \div 1000) \o "," \o Pad3(v % 1000)
    ELSE ToString(v)

\* f"{v:.1f}" and str(v) for a float v >= 0 with one decimal, given in
\* tenths.
FormatOneDecimal(tenths) ==
    ToString(tenths \div 10) \o "." \o ToString(tenths % 10)

\* The item ids that simbrief_data has an entry for.
SimbriefIds == { "fuel", "baro_ref", "baro_ref_ldg", "pitch_trim" }

\* simbrief_data[id]["value"]; the trim in tenths of a percent.
SimbriefDataValue(id, flight_plan) ==
    CASE id = "fuel"         -> flight_plan.fuel_block
      [] id = "baro_ref"     -> flight_plan.origin_qnh
      [] id = "baro_ref_ldg" -> flight_plan.dest_qnh
      [] id = "pitch_trim"   -> flight_plan.trim_percent_x10

\* simbrief_data[id]["type"]
SimbriefDataType(id) ==
    CASE id = "fuel"         -> "fuel"
      [] id = "baro_ref"     -> "baro"
      [] id = "baro_ref_ldg" -> "baro"
      [] id = "pitch_trim"   -> "trim"

\* The item passes both `continue` tests of inject_flight_plan.
Injects(k, flight_plan) ==
    /\ HasPlaceholder(k)
    /\ k[2] \in SimbriefIds
    /\ SimbriefDataValue(k[2], flight_plan) # 0

\* str(sb_data["value"])
RawValue(id, flight_plan) ==
    IF id = "pitch_trim"
    THEN FormatOneDecimal(SimbriefDataValue(id, flight_plan))
    ELSE ToString(SimbriefDataValue(id, flight_plan))

\* display_val
DisplayVal(id, flight_plan) ==
    CASE SimbriefDataType(id) = "fuel" ->
            FormatThousands(SimbriefDataValue(id, flight_plan)) \o " "
      [] SimbriefDataType(id) = "baro" ->
            ToString(SimbriefDataValue(id, flight_plan)) \o " "
      [] SimbriefDataType(id) = "trim" ->
            FormatOneDecimal(SimbriefDataValue(id, flight_plan))

\* item.response_template.replace("___", styled_val)
InjectedResponse(k, flight_plan) ==
    "<span class=\"simbrief-value\">" \o DisplayVal(k[2], flight_plan)
        \o "</span>" \o TemplateText(k)

VARIABLES
    current_phase,    \* checklist_manager.current_phase
    phase_mode,       \* checklist_manager.phase_mode: "auto" | "manual"
    phase_history,    \* checklist_manager.phase_history
    checked,          \* item.checked of every item
    verified,         \* item.verified of every item: "None" | "True" | "False"
    detector_phase,   \* phase_detector._current_phase
    sim_state,        \* simconnect._state, the latest polled FlightState
    poll_result,      \* the FlightState _poll_state returned, the callback's argument
    response,         \* item.response of every item
    simbrief_value,   \* item.simbrief_value of every item, "None" when absent
    simbrief_type,    \* item.simbrief_type of every item, "None" when absent
    training_mode,    \* checklist_manager.training_mode (and the stored setting)
    sockets,          \* every WebSocket object: "new" | "open" | "closing" | "ended"
    connections,      \* websocket_manager._connections
    broadcasts,       \* the broadcast coroutines: position, snapshot taken,
                      \* sends still to do, dead_connections collected
    voice_expected,   \* voice_manager._current_item_id, "None" when unset
    ws_reply,         \* the last message the server sent to each WebSocket
    loop,             \* the asyncio event loop: which coroutine runs and where
                      \* the polling task and a WebSocket handler stand
    poll_pending,     \* start_polling holds a poll result not yet passed to the callback
    last_op,          \* the handler that ran last
    arg,              \* the phase or mode string that handler was given
    success,          \* what the store call of that handler returned
    signal,           \* what the handler answered: "ok", "error", or "none"
    detected,         \* what phase_detector.detect returned in that handler
    n_ops,            \* handler invocations since startup
    visit_order       \* the phases that have been active since the last
                      \* reset_all, in the order they first became active

vars == << current_phase, phase_mode, phase_history, checked, verified,
           detector_phase, sim_state, poll_result, poll_pending,
           response, simbrief_value, simbrief_type, loop, training_mode,
           sockets, connections, broadcasts, voice_expected, ws_reply,
           last_op, arg, success, signal, detected, n_ops, visit_order >>

\* After lifespan has created the polling task and a client has connected:
\* no coroutine runs, the polling task has not polled yet, the WebSocket
\* handler waits in receive_json.
LoopAtStartup ==
    [ running |-> "none", telemetry |-> "sleeping", pilot |-> "receiving",
      request |-> "None", pilot_detected |-> "None" ]

\* The item fields that flight-plan injection writes.
plan_vars == << response, simbrief_value, simbrief_type >>

\* The WebSocket objects a run can see, and the coroutines that broadcast:
\* the polling task's callback and a request handler.
Sockets == { "ws1", "ws2", "ws3" }

Broadcasters == { "telemetry", "handler" }

\* A broadcast coroutine that is not running.
BroadcastIdle == [ pc |-> "idle", snapshot |-> {}, pending |-> {}, dead |-> {} ]

\* What the WebSocket manager, the voice manager and the sockets hold.
sock_vars == << sockets, connections, broadcasts, voice_expected, ws_reply >>

\* After one client has connected: its handler has registered it and sent
\* the initial state_update; no broadcast runs; the voice manager expects
\* no response.
SocketsAtStartup ==
    /\ sockets = [ c \in Sockets |-> IF c = "ws1" THEN "open" ELSE "new" ]
    /\ connections = { "ws1" }
    /\ broadcasts = [ b \in Broadcasters |-> BroadcastIdle ]
    /\ voice_expected = "None"
    /\ ws_reply = [ c \in Sockets |->
                      IF c = "ws1" THEN "state_update" ELSE "None" ]

\* config.AUTO_PHASE_TRANSITION
AUTO_PHASE_TRANSITION == TRUE


\* Variant: on_state_update that runs detection whatever the mode.
AutoDetectAlways(mode) == AUTO_PHASE_TRANSITION

\* The guard of on_state_update's detection block.
AutoDetectEnabled(mode) == mode = "auto" /\ AUTO_PHASE_TRANSITION


\* Variant: sync_to_phase that leaves the internal phase alone.
SyncToPhaseSkipped(internal, phase) == internal

\* PhaseDetector.sync_to_phase(phase) / set_phase(phase): the new _current_phase.
SyncToPhase(internal, phase) == phase

\* PhaseDetector.reset(): the new _current_phase.
DetectorReset == "cockpit_preparation"

\* ------------------------------------------------------------------
\* Telemetry the simulator may deliver: one snapshot per stage of a flight
\* ------------------------------------------------------------------

AtGate == DefaultFlightState
BeaconOn == [ AtGate EXCEPT !.light_beacon = TRUE ]
EnginesStarted ==
    [ BeaconOn EXCEPT !.eng1_combustion = TRUE, !.eng2_combustion = TRUE,
                      !.eng1_n1 = 20, !.eng2_n1 = 20,
                      !.eng1_n1_rpm = 3277, !.eng2_n1_rpm = 3277 ]
Taxiing ==
    [ EnginesStarted EXCEPT !.parking_brake = FALSE, !.ground_velocity = 12,
                            !.flaps_percent = 25 ]
EnteringRunway == [ Taxiing EXCEPT !.light_landing = TRUE ]
Climbing ==
    [ EnteringRunway EXCEPT !.sim_on_ground = FALSE, !.ground_velocity = 250,
                            !.altitude_agl = 3000, !.altitude_msl = 3000,
                            !.vertical_speed = 2000, !.flaps_percent = 0 ]
LevelAtCruise ==
    [ Climbing EXCEPT !.altitude_agl = 35000, !.altitude_msl = 35000,
                      !.vertical_speed = 0, !.light_landing = FALSE,
                      !.ground_velocity = 450 ]
Descending ==
    [ LevelAtCruise EXCEPT !.altitude_agl = 25000, !.altitude_msl = 25000,
                           !.vertical_speed = -1500 ]
BelowTenThousand ==
    [ Descending EXCEPT !.altitude_agl = 8000, !.altitude_msl = 8000,
                        !.vertical_speed = -1000, !.light_landing = TRUE ]
OnFinal ==
    [ BelowTenThousand EXCEPT !.altitude_agl = 500, !.altitude_msl = 600,
                              !.vertical_speed = -700, !.ground_velocity = 140,
                              !.flaps_percent = 100 ]
RollingOut ==
    [ OnFinal EXCEPT !.sim_on_ground = TRUE, !.altitude_agl = 0,
                     !.altitude_msl = 100, !.vertical_speed = 0,
                     !.ground_velocity = 25 ]
Stopped ==
    [ RollingOut EXCEPT !.ground_velocity = 0, !.parking_brake = TRUE,
                        !.flaps_percent = 0, !.light_landing = FALSE ]
ShutDown ==
    [ Stopped EXCEPT !.eng1_combustion = FALSE, !.eng2_combustion = FALSE,
                     !.eng1_n1 = 0, !.eng2_n1 = 0,
                     !.eng1_n1_rpm = 0, !.eng2_n1_rpm = 0 ]

FlightProfile ==
    { AtGate, BeaconOn, EnginesStarted, Taxiing, EnteringRunway, Climbing,
      LevelAtCruise, Descending, BelowTenThousand, OnFinal, RollingOut,
      Stopped, ShutDown }

\* ------------------------------------------------------------------
\* Startup: the module-level instances of main.py
\* ------------------------------------------------------------------

Init ==
    /\ current_phase = "cockpit_preparation"
    /\ phase_mode = "auto"
    /\ phase_history = << >>
    /\ checked = [ k \in ItemKeys |-> FALSE ]
    /\ verified = [ k \in ItemKeys |-> "None" ]
    /\ response = [ k \in ItemKeys |-> ResponseTemplate(k) ]
    /\ simbrief_value = [ k \in ItemKeys |-> "None" ]
    /\ simbrief_type = [ k \in ItemKeys |-> "None" ]
    /\ loop = LoopAtStartup
    /\ training_mode = FALSE
    /\ SocketsAtStartup
    /\ detector_phase = "cockpit_preparation"
    /\ sim_state = DefaultFlightState
    /\ poll_result = DefaultFlightState
    /\ poll_pending = FALSE
    /\ last_op = "startup"
    /\ arg = "None"
    /\ success = TRUE
    /\ signal = "none"
    /\ detected = "None"
    /\ n_ops = 0
    /\ visit_order = << "cockpit_preparation" >>

\* The record of first activations once current_phase has become cur:
\* reset_all starts it afresh.
VisitOrder(order, op, cur) ==
    IF op \in { "rest_reset", "ws_reset", "reset_all" }
    THEN << cur >>
    ELSE IF \E i \in 1..Len(order) : order[i] = cur
         THEN order
         ELSE Append(order, cur)

\* What every handler records about itself.
Handled(op, a, ok, sig, det) ==
    /\ n_ops < MaxOps
    /\ visit_order' = VisitOrder(visit_order, op, current_phase')
    /\ IF op \in { "poll_state", "poll_state_missing" }
       THEN TRUE
       ELSE UNCHANGED poll_result
    /\ IF op \in { "rest_reset", "ws_reset", "rest_fetch_flight_plan",
                   "rest_clear_flight_plan", "rest_save_settings" }
       THEN TRUE
       ELSE UNCHANGED plan_vars
    /\ IF op = "rest_save_settings" THEN TRUE ELSE UNCHANGED training_mode
    /\ IF op = "ws_voice_read_item" THEN TRUE ELSE UNCHANGED sock_vars
    /\ UNCHANGED loop
    /\ last_op' = op
    /\ arg' = a
    /\ success' = ok
    /\ signal' = sig
    /\ detected' = det
    /\ n_ops' = n_ops + 1

\* ------------------------------------------------------------------
\* simconnect_client.py: one turn of start_polling
\* ------------------------------------------------------------------

\* Variant: a poll started while the callback of the previous one is still
\* waiting to run.
PollStateOverlapping(s) ==
    /\ sim_state' = s
    /\ poll_result' = IF poll_pending THEN poll_result ELSE s
    /\ poll_pending' = TRUE
    /\ UNCHANGED << current_phase, phase_mode, phase_history, checked,
                    verified, detector_phase >>
    /\ Handled("poll_state", "None", TRUE, "none", "None")

\* _poll_state in the executor: a new FlightState replaces _state.
PollState(s) ==
    /\ ~poll_pending
    /\ sim_state' = s
    /\ poll_result' = s
    /\ poll_pending' = TRUE
    /\ UNCHANGED << current_phase, phase_mode, phase_history, checked,
                    verified, detector_phase >>
    /\ Handled("poll_state", "None", TRUE, "none", "None")

\* The FlightState that _poll_state builds when aq.get yields None for the
\* SimConnect variables in `missing`: their attributes are left out of
\* state_dict and take the FlightState defaults.
PolledState(readings, missing) ==
    [ sim_on_ground    |-> IF "SIM_ON_GROUND" \in missing
                           THEN DefaultFlightState.sim_on_ground
                           ELSE readings.sim_on_ground,
      altitude_agl     |-> IF "PLANE_ALT_ABOVE_GROUND" \in missing
                           THEN DefaultFlightState.altitude_agl
                           ELSE readings.altitude_agl,
      altitude_msl     |-> IF "INDICATED_ALTITUDE" \in missing
                           THEN DefaultFlightState.altitude_msl
                           ELSE readings.altitude_msl,
      vertical_speed   |-> IF "VERTICAL_SPEED" \in missing
                           THEN DefaultFlightState.vertical_speed
                           ELSE readings.vertical_speed,
      ground_velocity  |-> IF "GROUND_VELOCITY" \in missing
                           THEN DefaultFlightState.ground_velocity
                           ELSE readings.ground_velocity,
      parking_brake    |-> IF "BRAKE_PARKING_POSITION" \in missing
                           THEN DefaultFlightState.parking_brake
                           ELSE readings.parking_brake,
      flaps_percent    |-> IF "TRAILING_EDGE_FLAPS_LEFT_PERCENT" \in missing
                           THEN DefaultFlightState.flaps_percent
                           ELSE readings.flaps_percent,
      eng1_combustion  |-> IF "GENERAL_ENG_COMBUSTION:1" \in missing
                           THEN DefaultFlightState.eng1_combustion
                           ELSE readings.eng1_combustion,
      eng2_combustion  |-> IF "GENERAL_ENG_COMBUSTION:2" \in missing
                           THEN DefaultFlightState.eng2_combustion
                           ELSE readings.eng2_combustion,
      eng1_n1          |-> IF "TURB_ENG_N1:1" \in missing
                           THEN DefaultFlightState.eng1_n1
                           ELSE readings.eng1_n1,
      eng2_n1          |-> IF "TURB_ENG_N1:2" \in missing
                           THEN DefaultFlightState.eng2_n1
                           ELSE readings.eng2_n1,
      eng1_n1_rpm      |-> IF "ENG_N1_RPM:1" \in missing
                           THEN DefaultFlightState.eng1_n1_rpm
                           ELSE readings.eng1_n1_rpm,
      eng2_n1_rpm      |-> IF "ENG_N1_RPM:2" \in missing
                           THEN DefaultFlightState.eng2_n1_rpm
                           ELSE readings.eng2_n1_rpm,
      light_beacon     |-> IF "LIGHT_BEACON" \in missing
                           THEN DefaultFlightState.light_beacon
                           ELSE readings.light_beacon,
      light_landing    |-> IF "LIGHT_LANDING" \in missing
                           THEN DefaultFlightState.light_landing
                           ELSE readings.light_landing ]

\* _poll_state in the executor when the simulator has no value for the
\* variables in `missing`; the set is recorded in arg.
PollStateMissing(readings, missing) ==
    /\ ~poll_pending
    /\ sim_state' = PolledState(readings, missing)
    /\ poll_result' = sim_state'
    /\ poll_pending' = TRUE
    /\ UNCHANGED << current_phase, phase_mode, phase_history, checked,
                    verified, detector_phase >>
    /\ Handled("poll_state_missing", missing, TRUE, "none", "None")

\* Variant: a telemetry callback that acknowledges the items it verifies.
OnStateUpdateAcknowledging ==
    /\ poll_pending
    /\ poll_pending' = FALSE
    /\ verified' = VerifyFrom(verified, sim_state, 1)
    /\ checked' = [ k \in ItemKeys |-> checked[k] \/ verified'[k] = "True" ]
    /\ UNCHANGED << detector_phase, current_phase, phase_history,
                    phase_mode, sim_state >>
    /\ Handled("on_state_update", "None", TRUE, "none", "None")

\* main.py on_state_update(state), called with the poll result.
OnStateUpdate ==
    /\ poll_pending
    /\ poll_pending' = FALSE
    /\ verified' = VerifyFrom(verified, sim_state, 1)
    /\ IF AutoDetectEnabled(phase_mode)
       THEN /\ detector_phase' = Detect(detector_phase, poll_result)
            /\ IF detector_phase' \in Phase
               THEN /\ current_phase' = SetPhaseCurrent(current_phase, detector_phase')
                    /\ phase_history' = SetPhaseHistory(current_phase, phase_history,
                                                        detector_phase', TRUE)
               ELSE UNCHANGED << current_phase, phase_history >>
            /\ Handled("on_state_update", "None", TRUE, "none", detector_phase')
       ELSE /\ UNCHANGED << detector_phase, current_phase, phase_history >>
            /\ Handled("on_state_update", "None", TRUE, "none", "None")
    /\ UNCHANGED << phase_mode, checked, sim_state >>

\* ------------------------------------------------------------------
\* checklist_manager.py: next_phase, prev_phase, reset_all
\* ------------------------------------------------------------------

\* ChecklistManager.next_phase(): the store's phase fields afterwards and
\* the returned flag.
ManagerNextPhase(current, history, mode) ==
    IF get_next_checklist_phase(current) # "None"
    THEN [ current_phase |-> SetPhaseCurrent(current, get_next_checklist_phase(current)),
           phase_history |-> SetPhaseHistory(current, history,
                                             get_next_checklist_phase(current), TRUE),
           phase_mode    |-> "manual",
           ok            |-> TRUE ]
    ELSE [ current_phase |-> current, phase_history |-> history,
           phase_mode |-> mode, ok |-> FALSE ]


\* Variant: prev_phase calling set_phase with the default record_history.
ManagerPrevPhaseRecording(current, history, mode) ==
    IF get_prev_checklist_phase(current) # "None"
    THEN [ current_phase |-> SetPhaseCurrent(current, get_prev_checklist_phase(current)),
           phase_history |-> SetPhaseHistory(current, history,
                                             get_prev_checklist_phase(current), TRUE),
           phase_mode    |-> "manual",
           ok            |-> TRUE ]
    ELSE [ current_phase |-> current, phase_history |-> history,
           phase_mode |-> mode, ok |-> FALSE ]

\* Variant: prev_phase that takes back the last entry of the history.
ManagerPrevPhaseForgetting(current, history, mode) ==
    IF get_prev_checklist_phase(current) # "None"
    THEN [ current_phase |-> SetPhaseCurrent(current, get_prev_checklist_phase(current)),
           phase_history |-> IF Len(history) > 0
                             THEN SubSeq(history, 1, Len(history) - 1)
                             ELSE history,
           phase_mode    |-> "manual",
           ok            |-> TRUE ]
    ELSE [ current_phase |-> current, phase_history |-> history,
           phase_mode |-> mode, ok |-> FALSE ]

\* ChecklistManager.prev_phase()
ManagerPrevPhase(current, history, mode) ==
    IF get_prev_checklist_phase(current) # "None"
    THEN [ current_phase |-> SetPhaseCurrent(current, get_prev_checklist_phase(current)),
           phase_history |-> SetPhaseHistory(current, history,
                                             get_prev_checklist_phase(current), FALSE),
           phase_mode    |-> "manual",
           ok            |-> TRUE ]
    ELSE [ current_phase |-> current, phase_history |-> history,
           phase_mode |-> mode, ok |-> FALSE ]


\* Variant: reset_all that clears the checked flags and leaves verified.
ResetAllKeepingVerified ==
    /\ checked' = [ k \in ItemKeys |-> FALSE ]
    /\ verified' = verified
    /\ response' = [ k \in ItemKeys |-> ResponseTemplate(k) ]
    /\ simbrief_value' = [ k \in ItemKeys |-> "None" ]
    /\ simbrief_type' = [ k \in ItemKeys |-> "None" ]
    /\ current_phase' = "cockpit_preparation"
    /\ phase_mode' = "auto"
    /\ phase_history' = << >>

\* ChecklistManager.reset_all()
ResetAll ==
    /\ checked' = [ k \in ItemKeys |-> FALSE ]
    /\ verified' = [ k \in ItemKeys |-> "None" ]
    /\ response' = [ k \in ItemKeys |-> ResponseTemplate(k) ]
    /\ simbrief_value' = [ k \in ItemKeys |-> "None" ]
    /\ simbrief_type' = [ k \in ItemKeys |-> "None" ]
    /\ current_phase' = "cockpit_preparation"
    /\ phase_mode' = "auto"
    /\ phase_history' = << >>

\* ChecklistManager.inject_flight_plan(flight_plan)
InjectFlightPlan(flight_plan) ==
    /\ response' = [ k \in ItemKeys |->
            IF Injects(k, flight_plan)
            THEN InjectedResponse(k, flight_plan) ELSE response[k] ]
    /\ simbrief_value' = [ k \in ItemKeys |->
            IF Injects(k, flight_plan)
            THEN RawValue(k[2], flight_plan) ELSE simbrief_value[k] ]
    /\ simbrief_type' = [ k \in ItemKeys |->
            IF Injects(k, flight_plan)
            THEN SimbriefDataType(k[2]) ELSE simbrief_type[k] ]

\* Variant: clear_flight_plan_data that keeps the stored type.
ClearFlightPlanDataKeepingType ==
    /\ response' = [ k \in ItemKeys |-> ResponseTemplate(k) ]
    /\ simbrief_value' = [ k \in ItemKeys |-> "None" ]
    /\ simbrief_type' = simbrief_type

\* ChecklistManager.clear_flight_plan_data()
ClearFlightPlanData ==
    /\ response' = [ k \in ItemKeys |-> ResponseTemplate(k) ]
    /\ simbrief_value' = [ k \in ItemKeys |-> "None" ]
    /\ simbrief_type' = [ k \in ItemKeys |-> "None" ]

\* ------------------------------------------------------------------
\* main.py: REST endpoints
\* ------------------------------------------------------------------

\* POST /api/checklist/next
RestNextPhase ==
    LET r == ManagerNextPhase(current_phase, phase_history, phase_mode) IN
    /\ current_phase' = r.current_phase
    /\ phase_history' = r.phase_history
    /\ phase_mode' = r.phase_mode
    /\ Handled("rest_next_phase", "None", r.ok,
               IF r.ok THEN "ok" ELSE "error", "None")
    /\ UNCHANGED << checked, verified, detector_phase, sim_state, poll_pending >>

\* POST /api/checklist/prev
RestPrevPhase ==
    LET r == ManagerPrevPhase(current_phase, phase_history, phase_mode) IN
    /\ current_phase' = r.current_phase
    /\ phase_history' = r.phase_history
    /\ phase_mode' = r.phase_mode
    /\ Handled("rest_prev_phase", "None", r.ok,
               IF r.ok THEN "ok" ELSE "error", "None")
    /\ UNCHANGED << checked, verified, detector_phase, sim_state, poll_pending >>

\* POST /api/checklist/phase
RestSetPhase(p) ==
    /\ IF p \in Phase
       THEN /\ current_phase' = SetPhaseCurrent(current_phase, p)
            /\ phase_history' = SetPhaseHistory(current_phase, phase_history, p, TRUE)
            /\ phase_mode' = "manual"
            /\ Handled("rest_set_phase", p, TRUE, "ok", "None")
       ELSE /\ UNCHANGED << current_phase, phase_history, phase_mode >>
            /\ Handled("rest_set_phase", p, FALSE, "error", "None")
    /\ UNCHANGED << checked, verified, detector_phase, sim_state, poll_pending >>

\* POST /api/checklist/reset
RestReset ==
    /\ ResetAll
    /\ detector_phase' = DetectorReset
    /\ Handled("rest_reset", "None", TRUE, "ok", "None")
    /\ UNCHANGED << sim_state, poll_pending >>

\* POST /api/flightplan/fetch when SimBrief delivers flight_plan
RestFetchFlightPlan(flight_plan) ==
    /\ InjectFlightPlan(flight_plan)
    /\ UNCHANGED << current_phase, phase_mode, phase_history, checked,
                    verified, detector_phase, sim_state, poll_pending >>
    /\ Handled("rest_fetch_flight_plan", flight_plan, TRUE, "ok", "None")

\* POST /api/flightplan/fetch when no username is configured or the
\* SimBrief client raises: an HTTP error, nothing is injected.
RestFetchFlightPlanFailed ==
    /\ UNCHANGED << current_phase, phase_mode, phase_history, checked,
                    verified, detector_phase, sim_state, poll_pending,
                    plan_vars >>
    /\ Handled("rest_fetch_flight_plan", "None", FALSE, "error", "None")

\* POST /api/flightplan/clear; arg records the items that carried an
\* injected value when the request arrived.
RestClearFlightPlan ==
    /\ ClearFlightPlanData
    /\ UNCHANGED << current_phase, phase_mode, phase_history, checked,
                    verified, detector_phase, sim_state, poll_pending >>
    /\ Handled("rest_clear_flight_plan",
               { k \in ItemKeys : simbrief_value[k] # "None" },
               TRUE, "ok", "None")

\* ChecklistManager.set_training_mode(enabled) when enabled differs from
\* training_mode: the checklists are loaded afresh (every item unchecked,
\* unverified, its response the template) and the store returns to the
\* first phase in auto mode with an empty history.
SetTrainingMode(enabled) ==
    /\ training_mode' = enabled
    /\ checked' = [ k \in ItemKeys |-> FALSE ]
    /\ verified' = [ k \in ItemKeys |-> "None" ]
    /\ response' = [ k \in ItemKeys |-> ResponseTemplate(k) ]
    /\ simbrief_value' = [ k \in ItemKeys |-> "None" ]
    /\ simbrief_type' = [ k \in ItemKeys |-> "None" ]
    /\ current_phase' = "cockpit_preparation"
    /\ phase_mode' = "auto"
    /\ phase_history' = << >>

\* POST /api/settings with training_mode = enabled; the handler does not
\* touch phase_detector.
RestSaveSettings(enabled) ==
    /\ IF enabled # training_mode
       THEN SetTrainingMode(enabled)
       ELSE UNCHANGED << training_mode, checked, verified, plan_vars,
                         current_phase, phase_mode, phase_history >>
    /\ UNCHANGED << detector_phase, sim_state, poll_pending >>
    /\ Handled("rest_save_settings", enabled, TRUE, "ok", "None")

\* POST /api/mode/auto and POST /api/mode/manual
RestSetMode(m) ==
    /\ phase_mode' = m
    /\ UNCHANGED << current_phase, phase_history, checked, verified,
                    detector_phase, sim_state, poll_pending >>
    /\ Handled("rest_set_mode", m, TRUE, "ok", "None")

\* ------------------------------------------------------------------
\* main.py: websocket_endpoint, one received message
\* ------------------------------------------------------------------

\* msg_type == "set_phase"
WsSetPhase(p) ==
    /\ IF p \in Phase
       THEN /\ current_phase' = SetPhaseCurrent(current_phase, p)
            /\ phase_history' = SetPhaseHistory(current_phase, phase_history, p, TRUE)
            /\ detector_phase' = Detect(SyncToPhase(detector_phase, p), sim_state)
            /\ phase_mode' = IF p = detector_phase' THEN "auto" ELSE "manual"
            /\ Handled("ws_set_phase", p, TRUE, "none", detector_phase')
       ELSE /\ UNCHANGED << current_phase, phase_history, detector_phase, phase_mode >>
            /\ Handled("ws_set_phase", p, FALSE, "none", "None")
    /\ UNCHANGED << checked, verified, sim_state, poll_pending >>

\* msg_type == "next_phase"
WsNextPhase ==
    LET r == ManagerNextPhase(current_phase, phase_history, phase_mode) IN
    /\ current_phase' = r.current_phase
    /\ phase_history' = r.phase_history
    /\ detector_phase' = Detect(SyncToPhase(detector_phase, r.current_phase), sim_state)
    /\ phase_mode' = IF r.current_phase = detector_phase' THEN "auto" ELSE r.phase_mode
    /\ Handled("ws_next_phase", "None", r.ok, "none", detector_phase')
    /\ UNCHANGED << checked, verified, sim_state, poll_pending >>

\* msg_type == "prev_phase"
WsPrevPhase ==
    LET r == ManagerPrevPhase(current_phase, phase_history, phase_mode) IN
    /\ current_phase' = r.current_phase
    /\ phase_history' = r.phase_history
    /\ detector_phase' = Detect(SyncToPhase(detector_phase, r.current_phase), sim_state)
    /\ phase_mode' = IF r.current_phase = detector_phase' THEN "auto" ELSE r.phase_mode
    /\ Handled("ws_prev_phase", "None", r.ok, "none", detector_phase')
    /\ UNCHANGED << checked, verified, sim_state, poll_pending >>

\* msg_type == "reset"
WsReset ==
    /\ ResetAll
    /\ detector_phase' = DetectorReset
    /\ Handled("ws_reset", "None", TRUE, "none", "None")
    /\ UNCHANGED << sim_state, poll_pending >>


\* Variant: set_mode that stores whatever string it is given.
WsSetModeVerbatim(m) ==
    /\ phase_mode' = m
    /\ UNCHANGED << current_phase, phase_history, checked, verified,
                    detector_phase, sim_state, poll_pending >>
    /\ Handled("ws_set_mode", m, m \in { "auto", "manual" }, "none", "None")

\* msg_type == "set_mode"
WsSetMode(m) ==
    /\ phase_mode' = IF m \in { "auto", "manual" } THEN m ELSE phase_mode
    /\ UNCHANGED << current_phase, phase_history, checked, verified,
                    detector_phase, sim_state, poll_pending >>
    /\ Handled("ws_set_mode", m, m \in { "auto", "manual" }, "none", "None")

\* msg_type == "check_item": the handler calls toggle_item and ignores what
\* it returns.
WsCheckItem(k) ==
    /\ checked' = ToggleItem(checked, k[1], k[2])
    /\ UNCHANGED << current_phase, phase_mode, phase_history, verified,
                    detector_phase, sim_state, poll_pending >>
    /\ Handled("ws_check_item", k, ItemFound(k[1], k[2]), "none", "None")

\* ------------------------------------------------------------------
\* main.py: REST endpoints for the items
\* ------------------------------------------------------------------


\* Variant: a check endpoint that also marks the item as verified.
RestCheckItemVerifying(k) ==
    /\ checked' = CheckItem(checked, k[1], k[2])
    /\ verified' = [ j \in ItemKeys |-> IF j = k THEN "True" ELSE verified[j] ]
    /\ UNCHANGED << current_phase, phase_mode, phase_history,
                    detector_phase, sim_state, poll_pending >>
    /\ Handled("rest_check_item", k, ItemFound(k[1], k[2]),
               IF ItemFound(k[1], k[2]) THEN "ok" ELSE "error", "None")

\* POST /api/checklist/check
RestCheckItem(k) ==
    /\ checked' = CheckItem(checked, k[1], k[2])
    /\ UNCHANGED << current_phase, phase_mode, phase_history, verified,
                    detector_phase, sim_state, poll_pending >>
    /\ Handled("rest_check_item", k, ItemFound(k[1], k[2]),
               IF ItemFound(k[1], k[2]) THEN "ok" ELSE "error", "None")

\* POST /api/checklist/uncheck
RestUncheckItem(k) ==
    /\ checked' = UncheckItem(checked, k[1], k[2])
    /\ UNCHANGED << current_phase, phase_mode, phase_history, verified,
                    detector_phase, sim_state, poll_pending >>
    /\ Handled("rest_uncheck_item", k, ItemFound(k[1], k[2]),
               IF ItemFound(k[1], k[2]) THEN "ok" ELSE "error", "None")

\* POST /api/checklist/toggle
RestToggleItem(k) ==
    /\ checked' = ToggleItem(checked, k[1], k[2])
    /\ UNCHANGED << current_phase, phase_mode, phase_history, verified,
                    detector_phase, sim_state, poll_pending >>
    /\ Handled("rest_toggle_item", k, ItemFound(k[1], k[2]),
               IF ItemFound(k[1], k[2]) THEN "ok" ELSE "error", "None")

\* ------------------------------------------------------------------
\* The application: the polling loop and the request handlers interleave
\* ------------------------------------------------------------------

\* What clients send: every phase value and an unknown string over the
\* WebSocket (whose handler runs the detector), the first, the last and two
\* inner phases and an unknown string over REST; the two modes and an
\* unknown one.
WsPhaseStrings == Phase \cup InvalidPhaseStrings
RestPhaseStrings ==
    { "cockpit_preparation", "taxi", "cruise", "securing" } \cup InvalidPhaseStrings
ModeStrings == { "auto", "manual", "bogus" }

Next ==
    \/ \E s \in FlightProfile : PollState(s)
    \/ OnStateUpdate
    \/ RestNextPhase
    \/ RestPrevPhase
    \/ \E p \in RestPhaseStrings : RestSetPhase(p)
    \/ RestReset
    \/ \E m \in { "auto", "manual" } : RestSetMode(m)
    \/ \E p \in WsPhaseStrings : WsSetPhase(p)
    \/ WsNextPhase
    \/ WsPrevPhase
    \/ WsReset
    \/ \E m \in ModeStrings : WsSetMode(m)

Spec == Init /\ [][Next]_vars

\* ------------------------------------------------------------------
\* The items: check requests, telemetry, mode and reset requests interleave
\* ------------------------------------------------------------------

\* <<phase id, item id>> pairs that clients send: every item that carries
\* a verification rule, two that carry none, and an unknown checklist, an
\* item id of another checklist, an unknown item id.
ItemRequests ==
    { k \in ItemKeys : HasVerify(k) }
        \cup { << "cockpit_preparation", "gear_pins" >>,
               << "cockpit_preparation", "fuel" >> }
        \cup { << "bogus", "beacon" >>,
                    << "taxi", "beacon" >>,
                    << "before_start", "bogus" >> }

\* Snapshots polled while the items are worked through.
ItemsProfile == { AtGate, BeaconOn, Taxiing, OnFinal, ShutDown }

\* Sets of SimConnect variables the simulator has no value for in a poll.
MissingSets ==
    { { "BRAKE_PARKING_POSITION" }, { "LIGHT_BEACON" },
      { "TRAILING_EDGE_FLAPS_LEFT_PERCENT" },
      { "BRAKE_PARKING_POSITION", "LIGHT_BEACON" } }

NextItems ==
    \/ \E s \in ItemsProfile : PollState(s)
    \/ \E s \in { AtGate, Taxiing }, ms \in MissingSets :
            PollStateMissing(s, ms)
    \/ OnStateUpdate
    \/ \E k \in ItemRequests : RestCheckItem(k)
    \/ \E k \in ItemRequests : RestUncheckItem(k)
    \/ \E k \in ItemRequests : RestToggleItem(k)
    \/ \E k \in ItemRequests : WsCheckItem(k)
    \/ RestReset
    \/ WsReset
    \/ \E m \in { "auto", "manual" } : RestSetMode(m)
    \/ \E m \in ModeStrings : WsSetMode(m)

SpecItems == Init /\ [][NextItems]_vars

\* ------------------------------------------------------------------
\* Flight-plan injection and clearing among the other handlers
\* ------------------------------------------------------------------

\* Flight plans SimBrief delivers: block fuel, origin and destination QNH
\* (0 when the METAR has none), trim in tenths of a percent.
FlightPlans ==
    { [ fuel_block |-> 6500, origin_qnh |-> 1013, dest_qnh |-> 998,
        trim_percent_x10 |-> 25 ],
      [ fuel_block |-> 12345, origin_qnh |-> 0, dest_qnh |-> 1021,
        trim_percent_x10 |-> 0 ],
      [ fuel_block |-> 0, origin_qnh |-> 0, dest_qnh |-> 0,
        trim_percent_x10 |-> 0 ] }

\* Items that clients check and uncheck while a flight plan is loaded.
PlanRequests ==
    { << "cockpit_preparation", "fuel" >>, << "before_start", "beacon" >> }

NextFlightPlan ==
    \/ \E fp \in FlightPlans : RestFetchFlightPlan(fp)
    \/ RestFetchFlightPlanFailed
    \/ RestClearFlightPlan
    \/ RestReset
    \/ WsReset
    \/ \E s \in { BeaconOn, Taxiing } : PollState(s)
    \/ OnStateUpdate
    \/ \E k \in PlanRequests : RestCheckItem(k)
    \/ \E k \in PlanRequests : RestUncheckItem(k)
    \/ \E k \in PlanRequests : RestToggleItem(k)
    \/ \E k \in PlanRequests : WsCheckItem(k)
    \/ RestNextPhase
    \/ RestPrevPhase
    \/ WsNextPhase
    \/ WsPrevPhase
    \/ \E p \in { "approach" } : RestSetPhase(p)
    \/ \E p \in { "approach" } : WsSetPhase(p)
    \/ \E m \in { "auto", "manual" } : RestSetMode(m)
    \/ \E m \in { "auto", "manual" } : WsSetMode(m)

SpecFlightPlan == Init /\ [][NextFlightPlan]_vars

\* ------------------------------------------------------------------
\* The handlers on the asyncio event loop, one state write per step:
\* the polling task (start_polling, on_state_update), the executor thread
\* that runs _poll_state, and a WebSocket handler
\* ------------------------------------------------------------------

\* Positions at which the polling task is suspended in an await:
\* asyncio.sleep, run_in_executor, send_state_update.
TelemetryAwaitsAt(pc) == pc \in { "sleeping", "polling", "broadcast" }

\* Variant: a WebSocket handler that awaits between sync_to_phase and
\* detect.
PilotAwaitsAfterResync(pc) == pc \in { "receiving", "synced", "sending" }

\* Positions at which the WebSocket handler is suspended in an await:
\* receive_json, send_state_update.
PilotAwaitsAt(pc) == pc \in { "receiving", "sending" }

\* The event loop resumes a coroutine only when no other one is running.
CanRun(task) == loop.running = task \/ loop.running = "none"

\* The loop after the polling task has moved to pc.
TelemetryAt(pc) ==
    [ loop EXCEPT !.telemetry = pc,
                  !.running = IF TelemetryAwaitsAt(pc)
                              THEN "none" ELSE "telemetry" ]

\* The loop after the WebSocket handler has moved to pc.
PilotAt(pc) ==
    [ loop EXCEPT !.pilot = pc,
                  !.running = IF PilotAwaitsAt(pc) THEN "none" ELSE "pilot" ]

\* What a step of a coroutine records about itself.
Stepped(op, det) ==
    /\ last_op' = op
    /\ detected' = det
    /\ visit_order' = VisitOrder(visit_order, op, current_phase')
    /\ IF op = "reset_all" THEN TRUE ELSE UNCHANGED plan_vars
    /\ UNCHANGED << arg, success, signal, n_ops, training_mode, sock_vars >>

\* start_polling: the task wakes from its sleep and hands _poll_state to
\* the executor.
LoopSubmitPoll ==
    /\ CanRun("telemetry")
    /\ loop.telemetry = "sleeping"
    /\ loop' = TelemetryAt("polling")
    /\ UNCHANGED << current_phase, phase_mode, phase_history, checked,
                    verified, detector_phase, sim_state, poll_result,
                    poll_pending >>
    /\ Stepped("submit_poll", detected)

\* _poll_state in the executor thread: it replaces _state whatever the
\* event loop is doing.
ExecutorPoll(s) ==
    /\ loop.telemetry = "polling"
    /\ sim_state' = s
    /\ poll_result' = s
    /\ poll_pending' = TRUE
    /\ loop' = [ loop EXCEPT !.telemetry = "polled" ]
    /\ UNCHANGED << current_phase, phase_mode, phase_history, checked,
                    verified, detector_phase >>
    /\ Stepped("executor_poll", detected)

\* on_state_update, the verification loop over VERIFY_VARS.
LoopVerify ==
    /\ CanRun("telemetry")
    /\ loop.telemetry = "polled"
    /\ poll_pending' = FALSE
    /\ verified' = VerifyFrom(verified, sim_state, 1)
    /\ loop' = TelemetryAt("verified")
    /\ UNCHANGED << current_phase, phase_mode, phase_history, checked,
                    detector_phase, sim_state, poll_result >>
    /\ Stepped("verify", detected)

\* on_state_update, the mode test and phase_detector.detect(state).
LoopDetect ==
    /\ CanRun("telemetry")
    /\ loop.telemetry = "verified"
    /\ UNCHANGED << current_phase, phase_mode, phase_history, checked,
                    verified, sim_state, poll_result, poll_pending >>
    /\ IF AutoDetectEnabled(phase_mode)
       THEN /\ detector_phase' = Detect(detector_phase, poll_result)
            /\ loop' = TelemetryAt("detected")
            /\ Stepped("detect", detector_phase')
       ELSE /\ UNCHANGED detector_phase
            /\ loop' = TelemetryAt("broadcast")
            /\ Stepped("detect", "None")

\* on_state_update, checklist_manager.set_phase(detected), then the await
\* of the broadcast.
LoopAdvance ==
    /\ CanRun("telemetry")
    /\ loop.telemetry = "detected"
    /\ IF detector_phase \in Phase
       THEN /\ current_phase' = SetPhaseCurrent(current_phase, detector_phase)
            /\ phase_history' = SetPhaseHistory(current_phase, phase_history,
                                                detector_phase, TRUE)
       ELSE UNCHANGED << current_phase, phase_history >>
    /\ loop' = TelemetryAt("broadcast")
    /\ UNCHANGED << phase_mode, checked, verified, detector_phase, sim_state,
                    poll_result, poll_pending >>
    /\ Stepped("advance", detected)

\* The broadcast of on_state_update has been sent; start_polling sleeps.
LoopBroadcastDone ==
    /\ CanRun("telemetry")
    /\ loop.telemetry = "broadcast"
    /\ loop' = TelemetryAt("sleeping")
    /\ UNCHANGED << current_phase, phase_mode, phase_history, checked,
                    verified, detector_phase, sim_state, poll_result,
                    poll_pending >>
    /\ Stepped("broadcast_done", detected)

\* receive_json returns a message and the handler makes its first write:
\* checklist_manager.set_phase, next_phase or reset_all.
PilotStore(msg) ==
    /\ CanRun("pilot")
    /\ loop.pilot = "receiving"
    /\ CASE msg.type = "set_phase" ->
            /\ current_phase' = SetPhaseCurrent(current_phase, msg.phase)
            /\ phase_history' = SetPhaseHistory(current_phase, phase_history,
                                                msg.phase, TRUE)
            /\ UNCHANGED << phase_mode, checked, verified >>
            /\ loop' = [ PilotAt("store_written") EXCEPT !.request = msg ]
            /\ Stepped("ws_set_phase", detected)
         [] msg.type = "next_phase" ->
            LET r == ManagerNextPhase(current_phase, phase_history,
                                      phase_mode) IN
            /\ current_phase' = r.current_phase
            /\ phase_history' = r.phase_history
            /\ phase_mode' = r.phase_mode
            /\ UNCHANGED << checked, verified >>
            /\ loop' = [ PilotAt(IF r.ok THEN "store_written"
                                         ELSE "receiving")
                            EXCEPT !.request = msg ]
            /\ Stepped("ws_next_phase", detected)
         [] msg.type = "reset" ->
            /\ ResetAll
            /\ loop' = [ PilotAt("store_written") EXCEPT !.request = msg ]
            /\ Stepped("reset_all", detected)
    /\ UNCHANGED << detector_phase, sim_state, poll_result, poll_pending >>

\* The handler's write to the detector: sync_to_phase for set_phase and
\* next_phase, reset for reset (which then awaits the broadcast).
PilotSync ==
    /\ CanRun("pilot")
    /\ loop.pilot = "store_written"
    /\ IF loop.request.type = "reset"
       THEN /\ detector_phase' = DetectorReset
            /\ loop' = PilotAt("sending")
       ELSE /\ detector_phase' =
                  SyncToPhase(detector_phase,
                              IF loop.request.type = "set_phase"
                              THEN loop.request.phase ELSE current_phase)
            /\ loop' = PilotAt("synced")
    /\ UNCHANGED << current_phase, phase_mode, phase_history, checked,
                    verified, sim_state, poll_result, poll_pending >>
    /\ Stepped("sync", detected)

\* detected = phase_detector.detect(simconnect.state)
PilotDetect ==
    /\ CanRun("pilot")
    /\ loop.pilot = "synced"
    /\ detector_phase' = Detect(detector_phase, sim_state)
    /\ loop' = [ PilotAt("detected") EXCEPT
                    !.pilot_detected = detector_phase' ]
    /\ UNCHANGED << current_phase, phase_mode, phase_history, checked,
                    verified, sim_state, poll_result, poll_pending >>
    /\ Stepped("redetect", detector_phase')

\* The assignment to checklist_manager.phase_mode, then the await of the
\* broadcast.
PilotMode ==
    /\ CanRun("pilot")
    /\ loop.pilot = "detected"
    /\ phase_mode' =
          IF loop.request.type = "set_phase"
          THEN IF loop.request.phase = loop.pilot_detected
               THEN "auto" ELSE "manual"
          ELSE IF current_phase = loop.pilot_detected
               THEN "auto" ELSE phase_mode
    /\ loop' = PilotAt("sending")
    /\ UNCHANGED << current_phase, phase_history, checked, verified,
                    detector_phase, sim_state, poll_result, poll_pending >>
    /\ Stepped("set_mode", detected)

\* The handler's broadcast has been sent; it waits in receive_json again.
PilotSendDone ==
    /\ CanRun("pilot")
    /\ loop.pilot = "sending"
    /\ loop' = PilotAt("receiving")
    /\ UNCHANGED << current_phase, phase_mode, phase_history, checked,
                    verified, detector_phase, sim_state, poll_result,
                    poll_pending >>
    /\ Stepped("send_done", detected)

\* Messages the client sends.
PilotMessages ==
    { [ type |-> "set_phase", phase |-> "before_start" ],
      [ type |-> "next_phase", phase |-> "None" ],
      [ type |-> "reset", phase |-> "None" ] }

\* Snapshots the executor reads while the handlers run.
AsyncProfile == { AtGate, EnginesStarted }

NextAsync ==
    \/ LoopSubmitPoll
    \/ \E s \in AsyncProfile : ExecutorPoll(s)
    \/ LoopVerify
    \/ LoopDetect
    \/ LoopAdvance
    \/ LoopBroadcastDone
    \/ \E msg \in PilotMessages : PilotStore(msg)
    \/ PilotSync
    \/ PilotDetect
    \/ PilotMode
    \/ PilotSendDone

SpecAsync == Init /\ [][NextAsync]_vars

\* ------------------------------------------------------------------
\* PhaseDetector.detect as a function: every phase against every snapshot
\* of a grid that puts a value on each side of every threshold
\* ------------------------------------------------------------------

GroundSpeeds == { 4, 5, 9, 10, 29, 30 }
AltitudesMSL == { 0, 8000, 10000, 10001 }
VerticalSpeeds == { -501, -500, 499, 500 }
AltitudesAGL == { 999, 1000 }
N1Readings == { 15, 16 }

SnapshotGrid ==
    { [ DefaultFlightState EXCEPT
          !.light_beacon = b, !.light_landing = l, !.sim_on_ground = g,
          !.ground_velocity = gv, !.altitude_msl = msl,
          !.vertical_speed = vs, !.altitude_agl = agl,
          !.eng1_n1 = n1, !.eng2_combustion = c2 ] :
        b \in BOOLEAN, l \in BOOLEAN, g \in BOOLEAN, gv \in GroundSpeeds,
        msl \in AltitudesMSL, vs \in VerticalSpeeds, agl \in AltitudesAGL,
        n1 \in N1Readings, c2 \in BOOLEAN }

\* What a call of a PhaseDetector method records about itself.
DetectorCalled(op, a, det) ==
    /\ last_op' = op
    /\ arg' = a
    /\ detected' = det
    /\ UNCHANGED << current_phase, phase_mode, phase_history, checked,
                    verified, poll_result, poll_pending, success, signal,
                    n_ops, visit_order, plan_vars, loop, training_mode, sock_vars >>

InitDetect ==
    /\ detector_phase \in Phase
    /\ sim_state \in SnapshotGrid
    /\ poll_result = sim_state
    /\ current_phase = "cockpit_preparation"
    /\ phase_mode = "auto"
    /\ phase_history = << >>
    /\ checked = [ k \in ItemKeys |-> FALSE ]
    /\ verified = [ k \in ItemKeys |-> "None" ]
    /\ response = [ k \in ItemKeys |-> ResponseTemplate(k) ]
    /\ simbrief_value = [ k \in ItemKeys |-> "None" ]
    /\ simbrief_type = [ k \in ItemKeys |-> "None" ]
    /\ loop = LoopAtStartup
    /\ training_mode = FALSE
    /\ SocketsAtStartup
    /\ poll_pending = FALSE
    /\ last_op = "startup"
    /\ arg = "None"
    /\ success = TRUE
    /\ signal = "none"
    /\ detected = "None"
    /\ n_ops = 0
    /\ visit_order = << "cockpit_preparation" >>

\* phase_detector.detect(state) on the snapshot drawn at the start.
DetectOnce ==
    /\ last_op = "startup"
    /\ detector_phase' = Detect(detector_phase, sim_state)
    /\ DetectorCalled("detect", "None", detector_phase')
    /\ UNCHANGED sim_state

NextDetect == DetectOnce

SpecDetect == InitDetect /\ [][NextDetect]_vars

\* ------------------------------------------------------------------
\* A flight on telemetry alone: the polling loop with no client request
\* ------------------------------------------------------------------

\* One turn of start_polling with no request served in between: the poll
\* result replaces _state and is handed to on_state_update, which
\* evaluates the rules and, in auto mode, detects and sets the phase.
PollingTurn(s) ==
    /\ ~poll_pending
    /\ sim_state' = s
    /\ poll_result' = s
    /\ verified' = VerifyFrom(verified, s, 1)
    /\ IF AutoDetectEnabled(phase_mode)
       THEN /\ detector_phase' = Detect(detector_phase, s)
            /\ IF detector_phase' \in Phase
               THEN /\ current_phase' = SetPhaseCurrent(current_phase, detector_phase')
                    /\ phase_history' = SetPhaseHistory(current_phase, phase_history,
                                                        detector_phase', TRUE)
               ELSE UNCHANGED << current_phase, phase_history >>
            /\ detected' = detector_phase'
       ELSE /\ UNCHANGED << detector_phase, current_phase, phase_history >>
            /\ detected' = "None"
    /\ last_op' = "polling_turn"
    /\ visit_order' = VisitOrder(visit_order, "polling_turn", current_phase')
    /\ UNCHANGED << phase_mode, checked, poll_pending, arg, success, signal,
                    n_ops, plan_vars, loop, training_mode, sock_vars >>

NextFlight == \E s \in FlightProfile : PollingTurn(s)

SpecFlight == Init /\ [][NextFlight]_vars

\* ------------------------------------------------------------------
\* Pilot phase and mode requests between turns of the polling loop
\* ------------------------------------------------------------------

\* Snapshots polled between the requests.
ReturnProfile == { AtGate, BeaconOn, EnginesStarted, OnFinal }

\* Phases the pilot jumps to.
ReturnPhases == { "before_start", "taxi", "approach" }

NextReturn ==
    \/ \E s \in ReturnProfile : PollingTurn(s)
    \/ \E p \in ReturnPhases : RestSetPhase(p)
    \/ \E p \in ReturnPhases : WsSetPhase(p)
    \/ RestNextPhase
    \/ RestPrevPhase
    \/ WsNextPhase
    \/ WsPrevPhase
    \/ \E m \in { "auto", "manual" } : RestSetMode(m)
    \/ \E m \in { "auto", "manual" } : WsSetMode(m)

SpecReturn == Init /\ [][NextReturn]_vars

\* ------------------------------------------------------------------
\* Resets and rule-set switches between turns of the polling loop
\* ------------------------------------------------------------------

NextSettings ==
    \/ \E s \in FlightProfile : PollingTurn(s)
    \/ \E enabled \in BOOLEAN : RestSaveSettings(enabled)
    \/ RestReset
    \/ WsReset

SpecSettings == Init /\ [][NextSettings]_vars

\* ---------------------------------------------------------------------
\* WebSocket connections, broadcast and the voice read-item message.
\* ---------------------------------------------------------------------

\* A step of a coroutine that is not a counted request: it changes only the
\* sockets, the connection registry and the broadcast coroutines.
SocketStepped(op, a) ==
    /\ last_op' = op
    /\ arg' = a
    /\ UNCHANGED << current_phase, phase_mode, phase_history, checked,
                    verified, detector_phase, sim_state, poll_result,
                    poll_pending, plan_vars, loop, training_mode,
                    voice_expected, success, signal, detected, n_ops,
                    visit_order >>

\* websocket_endpoint up to its receive loop: WebSocketManager.connect
\* accepts the socket and adds it to _connections, then the handler sends
\* the initial state_update.
WsConnect(c) ==
    /\ sockets[c] = "new"
    /\ sockets' = [ sockets EXCEPT ![c] = "open" ]
    /\ connections' = connections \union { c }
    /\ ws_reply' = [ ws_reply EXCEPT ![c] = "state_update" ]
    /\ UNCHANGED broadcasts
    /\ SocketStepped("ws_connect", c)

\* The client goes away; its handler, waiting in receive_json, has not
\* run yet.
PeerCloses(c) ==
    /\ sockets[c] = "open"
    /\ sockets' = [ sockets EXCEPT ![c] = "closing" ]
    /\ UNCHANGED << connections, broadcasts, ws_reply >>
    /\ SocketStepped("peer_closes", c)

\* receive_json raises WebSocketDisconnect: the handler calls
\* WebSocketManager.disconnect, which discards the socket, and returns.
WsDisconnected(c) ==
    /\ sockets[c] = "closing"
    /\ sockets' = [ sockets EXCEPT ![c] = "ended" ]
    /\ connections' = connections \ { c }
    /\ UNCHANGED << broadcasts, ws_reply >>
    /\ SocketStepped("ws_disconnected", c)

\* checklist.items of the checklist of a phase.
ChecklistItems(phase) == { k \in ItemKeys : k[1] = phase }

\* Does item["id"] raise? A ChecklistItem defines no __getitem__, so
\* subscripting one raises TypeError.
SubscriptRaises(object_type) == object_type = "ChecklistItem"

\* WebSocket message voice_read_item with data.item_id = item_id on
\* socket c. get_current_checklist() is None for a phase without a
\* checklist; otherwise the generator (i for i in checklist.items if
\* i["id"] == item_id) subscripts the first ChecklistItem, the TypeError
\* leaves the receive loop through "except Exception", which calls
\* websocket_manager.disconnect(websocket), and the handler returns.
\* read_item_challenge and the voice_speak reply are reached only when the
\* search returns an item.
WsVoiceReadItem(c, item_id) ==
    LET items == IF current_phase \in Phase
                 THEN ChecklistItems(current_phase) ELSE {}
        raises == items # {} /\ SubscriptRaises("ChecklistItem")
    IN
    /\ sockets[c] = "open"
    /\ IF raises
       THEN /\ connections' = connections \ { c }
            /\ sockets' = [ sockets EXCEPT ![c] = "ended" ]
            /\ UNCHANGED << voice_expected, ws_reply >>
       ELSE UNCHANGED << sockets, connections, voice_expected, ws_reply >>
    /\ UNCHANGED broadcasts
    /\ UNCHANGED << current_phase, phase_mode, phase_history, checked,
                    verified, detector_phase, sim_state, poll_pending >>
    /\ Handled("ws_voice_read_item", << c, item_id >>, ~raises,
               IF raises THEN "disconnect" ELSE "none", "None")

\* WebSocketManager.broadcast up to its first send: return when no
\* connection is registered, else copy _connections under the lock.
BroadcastStart(b) ==
    /\ broadcasts[b].pc = "idle"
    /\ IF connections = {}
       THEN UNCHANGED broadcasts
       ELSE broadcasts' = [ broadcasts EXCEPT ![b] =
                [ pc |-> "sending", snapshot |-> connections,
                  pending |-> connections, dead |-> {} ] ]
    /\ UNCHANGED << sockets, connections, ws_reply >>
    /\ SocketStepped("broadcast_start", b)

\* Can send_text on socket c succeed, can it raise? An open socket takes
\* the message; a socket whose handler has returned raises; for a peer
\* that has just gone either can happen.
SendOutcomes(c) ==
    CASE sockets[c] = "open" -> { "sent" }
      [] sockets[c] = "closing" -> { "sent", "raised" }
      [] OTHER -> { "raised" }

\* One turn of the loop "for connection in connections": await
\* connection.send_text, and add the connection to dead_connections when
\* the send raises.
BroadcastSend(b, c) ==
    /\ broadcasts[b].pc = "sending"
    /\ c \in broadcasts[b].pending
    /\ \E outcome \in SendOutcomes(c) :
         LET left == broadcasts[b].pending \ { c }
             dead == IF outcome = "raised"
                     THEN broadcasts[b].dead \union { c }
                     ELSE broadcasts[b].dead
         IN
         /\ broadcasts' = [ broadcasts EXCEPT ![b] =
                [ pc |-> IF left = {} THEN "removing" ELSE "sending",
                  snapshot |-> broadcasts[b].snapshot,
                  pending |-> left, dead |-> dead ] ]
         /\ ws_reply' = IF outcome = "sent"
                        THEN [ ws_reply EXCEPT ![c] = "state_update" ]
                        ELSE ws_reply
         /\ SocketStepped("broadcast_send", << b, c, outcome >>)
    /\ UNCHANGED << sockets, connections >>

\* A broadcast that ends by writing back its snapshot without the dead
\* connections.
BroadcastWritesSnapshot(b) ==
    /\ broadcasts[b].pc = "removing"
    /\ connections' = broadcasts[b].snapshot \ broadcasts[b].dead
    /\ broadcasts' = [ broadcasts EXCEPT ![b] = BroadcastIdle ]
    /\ UNCHANGED << sockets, ws_reply >>
    /\ SocketStepped("broadcast_remove_dead",
                     [ by |-> b, snapshot |-> broadcasts[b].snapshot,
                       dead |-> broadcasts[b].dead ])

\* The end of broadcast: "if dead_connections: self._connections -=
\* dead_connections" under the lock, then return.
BroadcastRemoveDead(b) ==
    /\ broadcasts[b].pc = "removing"
    /\ connections' = connections \ broadcasts[b].dead
    /\ broadcasts' = [ broadcasts EXCEPT ![b] = BroadcastIdle ]
    /\ UNCHANGED << sockets, ws_reply >>
    /\ SocketStepped("broadcast_remove_dead",
                     [ by |-> b, snapshot |-> broadcasts[b].snapshot,
                       dead |-> broadcasts[b].dead ])

\* The item ids a voice_read_item message carries: items of the checklists
\* and an id no checklist has.
VoiceItemIds == { "gear_pins", "beacon", "pitch_trim", "no_such_item" }

\* Clients connect and go away while the polling task and a request
\* handler broadcast.
NextSockets ==
    \/ \E c \in Sockets : WsConnect(c)
    \/ \E c \in Sockets : PeerCloses(c)
    \/ \E c \in Sockets : WsDisconnected(c)
    \/ \E b \in Broadcasters : BroadcastStart(b)
    \/ \E b \in Broadcasters, c \in Sockets : BroadcastSend(b, c)
    \/ \E b \in Broadcasters : BroadcastRemoveDead(b)

SpecSockets == Init /\ [][NextSockets]_vars

\* Clients connect, go away and ask for items to be read while the pilot
\* steps through the phases.
NextVoice ==
    \/ \E c \in Sockets : WsConnect(c)
    \/ \E c \in Sockets : PeerCloses(c)
    \/ \E c \in Sockets : WsDisconnected(c)
    \/ \E c \in Sockets, item_id \in VoiceItemIds : WsVoiceReadItem(c, item_id)
    \/ RestNextPhase

SpecVoice == Init /\ [][NextVoice]_vars

\* ------------------------------------------------------------------

\* N1 percentages and raw N1 RPM values: none, just below/at the
\* threshold (15 %, 2457 / 163.84 = 14.996...) and just above it
\* (16 %, 2458 / 163.84 = 15.002...).
N1Percentages == { 0, 15, 16 }
N1RawRpms == { 0, 2457, 2458 }

EngineGrid ==
    { [ DefaultFlightState EXCEPT
          !.eng1_n1 = a, !.eng2_n1 = b, !.eng1_n1_rpm = ra, !.eng2_n1_rpm = rb,
          !.eng1_combustion = ca, !.eng2_combustion = cb ] :
        a \in N1Percentages, b \in N1Percentages,
        ra \in N1RawRpms, rb \in N1RawRpms,
        ca \in BOOLEAN, cb \in BOOLEAN }

\* A detector in one of the two phases whose advance depends on the
\* engines, about to be given a stationary snapshot of the grid.
InitEngines ==
    /\ detector_phase \in { "before_start", "after_landing" }
    /\ sim_state \in EngineGrid
    /\ poll_result = sim_state
    /\ current_phase = "cockpit_preparation"
    /\ phase_mode = "auto"
    /\ phase_history = << >>
    /\ checked = [ k \in ItemKeys |-> FALSE ]
    /\ verified = [ k \in ItemKeys |-> "None" ]
    /\ response = [ k \in ItemKeys |-> ResponseTemplate(k) ]
    /\ simbrief_value = [ k \in ItemKeys |-> "None" ]
    /\ simbrief_type = [ k \in ItemKeys |-> "None" ]
    /\ loop = LoopAtStartup
    /\ training_mode = FALSE
    /\ SocketsAtStartup
    /\ poll_pending = FALSE
    /\ last_op = "startup"
    /\ arg = "None"
    /\ success = TRUE
    /\ signal = "none"
    /\ detected = "None"
    /\ n_ops = 0
    /\ visit_order = << "cockpit_preparation" >>

SpecEngines == InitEngines /\ [][NextDetect]_vars

\* ------------------------------------------------------------------
\* PhaseDetector.detect in the air: altitudes and vertical speeds around
\* the cruise, descent and approach rules, from after-takeoff onwards
\* ------------------------------------------------------------------

\* MSL altitudes: negative, zero, just above zero, and each side of
\* 10000 ft; vertical speeds on each side of -500 and 500 ft/min.
AirAltitudesMSL == { -200, -1, 0, 1, 8000, 9999, 10000, 10001, 25000 }
AirVerticalSpeeds == { -600, -501, -500, -499, 0, 499, 500 }

AirGrid ==
    { [ DefaultFlightState EXCEPT
          !.sim_on_ground = FALSE, !.altitude_agl = 5000,
          !.ground_velocity = 250,
          !.altitude_msl = msl, !.vertical_speed = vs ] :
        msl \in AirAltitudesMSL, vs \in AirVerticalSpeeds }

\* A detector that has reached after-takeoff, about to be given airborne
\* snapshots.
InitAir ==
    /\ detector_phase = "after_takeoff"
    /\ sim_state \in AirGrid
    /\ poll_result = sim_state
    /\ current_phase = "cockpit_preparation"
    /\ phase_mode = "auto"
    /\ phase_history = << >>
    /\ checked = [ k \in ItemKeys |-> FALSE ]
    /\ verified = [ k \in ItemKeys |-> "None" ]
    /\ response = [ k \in ItemKeys |-> ResponseTemplate(k) ]
    /\ simbrief_value = [ k \in ItemKeys |-> "None" ]
    /\ simbrief_type = [ k \in ItemKeys |-> "None" ]
    /\ loop = LoopAtStartup
    /\ training_mode = FALSE
    /\ SocketsAtStartup
    /\ poll_pending = FALSE
    /\ last_op = "startup"
    /\ arg = "None"
    /\ success = TRUE
    /\ signal = "none"
    /\ detected = "None"
    /\ n_ops = 0
    /\ visit_order = << "cockpit_preparation" >>

\* detect(state) on a new snapshot; arg records the internal phase the
\* call found.
AirDetect(s) ==
    /\ sim_state' = s
    /\ detector_phase' = Detect(detector_phase, s)
    /\ DetectorCalled("detect", detector_phase, detector_phase')

\* detect(state) once more on the snapshot of the previous call.
AirDetectSame ==
    /\ last_op = "detect"
    /\ UNCHANGED sim_state
    /\ detector_phase' = Detect(detector_phase, sim_state)
    /\ DetectorCalled("detect_same", detector_phase, detector_phase')

NextAir ==
    \/ \E s \in AirGrid : AirDetect(s)
    \/ AirDetectSame

SpecAir == InitAir /\ [][NextAir]_vars

\* ------------------------------------------------------------------
\* The PhaseDetector object: its four methods in any order
\* ------------------------------------------------------------------

\* detect(state)
DetectorDetect(s) ==
    /\ sim_state' = s
    /\ detector_phase' = Detect(detector_phase, s)
    /\ DetectorCalled("detect", "None", detector_phase')

\* reset()
DetectorResetCall ==
    /\ detector_phase' = DetectorReset
    /\ DetectorCalled("reset", "None", "None")
    /\ UNCHANGED sim_state

\* set_phase(phase)
DetectorSetPhase(p) ==
    /\ detector_phase' = SyncToPhase(detector_phase, p)
    /\ DetectorCalled("set_phase", p, "None")
    /\ UNCHANGED sim_state

\* sync_to_phase(phase)
DetectorSyncToPhase(p) ==
    /\ detector_phase' = SyncToPhase(detector_phase, p)
    /\ DetectorCalled("sync_to_phase", p, "None")
    /\ UNCHANGED sim_state

NextDetector ==
    \/ \E s \in FlightProfile : DetectorDetect(s)
    \/ DetectorResetCall
    \/ \E p \in Phase : DetectorSetPhase(p)
    \/ \E p \in Phase : DetectorSyncToPhase(p)

SpecDetector == Init /\ [][NextDetector]_vars

\* ------------------------------------------------------------------
\* The ChecklistManager object: its phase methods in any order
\* ------------------------------------------------------------------

\* Number of method calls explored on the ChecklistManager object.
MaxNavOps == 4

\* What a call of a ChecklistManager method records about itself.
StoreCalled(op, a, ok) ==
    /\ n_ops < MaxNavOps
    /\ last_op' = op
    /\ arg' = a
    /\ success' = ok
    /\ n_ops' = n_ops + 1
    /\ visit_order' = VisitOrder(visit_order, op, current_phase')
    /\ IF op = "reset_all" THEN TRUE ELSE UNCHANGED plan_vars
    /\ UNCHANGED << loop, training_mode, sock_vars >>
    /\ UNCHANGED << detector_phase, sim_state, poll_result, poll_pending,
                    signal, detected >>

\* set_phase(phase), record_history left at its default as every caller
\* outside the class does.
StoreSetPhase(p) ==
    /\ current_phase' = SetPhaseCurrent(current_phase, p)
    /\ phase_history' = SetPhaseHistory(current_phase, phase_history, p, TRUE)
    /\ UNCHANGED << phase_mode, checked, verified >>
    /\ StoreCalled("set_phase", p, TRUE)

\* next_phase()
StoreNextPhase ==
    LET r == ManagerNextPhase(current_phase, phase_history, phase_mode) IN
    /\ current_phase' = r.current_phase
    /\ phase_history' = r.phase_history
    /\ phase_mode' = r.phase_mode
    /\ UNCHANGED << checked, verified >>
    /\ StoreCalled("next_phase", "None", r.ok)

\* prev_phase()
StorePrevPhase ==
    LET r == ManagerPrevPhase(current_phase, phase_history, phase_mode) IN
    /\ current_phase' = r.current_phase
    /\ phase_history' = r.phase_history
    /\ phase_mode' = r.phase_mode
    /\ UNCHANGED << checked, verified >>
    /\ StoreCalled("prev_phase", "None", r.ok)

\* reset_all()
StoreResetAll ==
    /\ ResetAll
    /\ StoreCalled("reset_all", "None", TRUE)

NextNavigation ==
    \/ \E p \in Phase : StoreSetPhase(p)
    \/ StoreNextPhase
    \/ StorePrevPhase
    \/ StoreResetAll

SpecNavigation == Init /\ [][NextNavigation]_vars

\* ------------------------------------------------------------------
\* The ChecklistManager object: update_verification called at will
\* ------------------------------------------------------------------

\* <<var_name, value>> a caller passes: the values get_variable yields for
\* the variables the rules reference (booleans for switches and engines, a
\* percentage for the flaps, the transponder code), a variable no rule
\* references and a name that is no variable.
VerificationInputs ==
    { << "BRAKE_PARKING_POSITION", TRUE >>, << "BRAKE_PARKING_POSITION", FALSE >>,
      << "LIGHT_BEACON", TRUE >>, << "LIGHT_BEACON", FALSE >>,
      << "TRAILING_EDGE_FLAPS_LEFT_PERCENT", 0 >>,
      << "TRAILING_EDGE_FLAPS_LEFT_PERCENT", 10 >>,
      << "TRAILING_EDGE_FLAPS_LEFT_PERCENT", 25 >>,
      << "TRANSPONDER_STATE", 1 >>, << "TRANSPONDER_STATE", 4 >>,
      << "ENG_COMBUSTION", TRUE >>, << "ENG_COMBUSTION", FALSE >>,
      << "LIGHT_LANDING", TRUE >>,
      << "BOGUS_VAR", 0 >> }

\* What a call of update_verification records about itself.
VerificationCalled(op, a) ==
    /\ last_op' = op
    /\ arg' = a
    /\ UNCHANGED << current_phase, phase_mode, phase_history, checked,
                    detector_phase, sim_state, poll_result, poll_pending,
                    success, signal, detected, n_ops, visit_order,
                    plan_vars, loop, training_mode, sock_vars >>

\* update_verification(var_name, value)
StoreUpdateVerification(c) ==
    /\ verified' = UpdateVerification(verified, c[1], c[2])
    /\ VerificationCalled("update_verification", c)

\* update_verification called again with the arguments of the call before.
StoreUpdateVerificationAgain ==
    /\ last_op \in { "update_verification", "update_verification_again" }
    /\ verified' = UpdateVerification(verified, arg[1], arg[2])
    /\ VerificationCalled("update_verification_again", arg)

NextVerification ==
    \/ \E c \in VerificationInputs : StoreUpdateVerification(c)
    \/ StoreUpdateVerificationAgain

SpecVerification == Init /\ [][NextVerification]_vars

\* ------------------------------------------------------------------
\* Properties
\* ------------------------------------------------------------------

InHistory(p, history) == \E i \in 1..Len(history) : history[i] = p

\* The transition table of the design: the advance condition of phase p
\* in snapshot s, and the phase it advances to.
AnyEngineRunning(s) ==
    \/ s.eng1_n1 > 15 \/ s.eng1_n1_rpm * 100 > 15 * 16384 \/ s.eng1_combustion
    \/ s.eng2_n1 > 15 \/ s.eng2_n1_rpm * 100 > 15 * 16384 \/ s.eng2_combustion

AdvanceCondition(p, s) ==
    CASE p = "cockpit_preparation" -> s.light_beacon
      [] p = "before_start"  -> AnyEngineRunning(s)
      [] p = "after_start"   -> s.ground_velocity >= 10
      [] p = "taxi"          -> s.light_landing
      [] p = "line_up"       -> ~s.sim_on_ground
      [] p = "after_takeoff" ->
            s.altitude_msl > 10000 /\ -500 < s.vertical_speed /\ s.vertical_speed < 500
      [] p = "cruise"        -> s.vertical_speed < -500 /\ s.altitude_msl > 10000
      [] p = "descent"       -> 0 < s.altitude_msl /\ s.altitude_msl < 10000
      [] p = "approach"      -> s.altitude_agl < 1000
      [] p = "landing"       -> s.sim_on_ground /\ s.ground_velocity < 30
      [] p = "after_landing" -> s.ground_velocity < 5 /\ ~AnyEngineRunning(s)
      [] OTHER               -> FALSE

TableSuccessor(p) ==
    CASE p = "cockpit_preparation" -> "before_start"
      [] p = "before_start"  -> "after_start"
      [] p = "after_start"   -> "taxi"
      [] p = "taxi"          -> "line_up"
      [] p = "line_up"       -> "after_takeoff"
      [] p = "after_takeoff" -> "cruise"
      [] p = "cruise"        -> "descent"
      [] p = "descent"       -> "approach"
      [] p = "approach"      -> "landing"
      [] p = "landing"       -> "after_landing"
      [] p = "after_landing" -> "parking"
      [] OTHER               -> p

StepOps == { "rest_next_phase", "rest_prev_phase", "ws_next_phase", "ws_prev_phase" }
NextOps == { "rest_next_phase", "ws_next_phase" }
PrevOps == { "rest_prev_phase", "ws_prev_phase" }
SetPhaseOps == { "rest_set_phase", "ws_set_phase" }

\* C1 (SpecDetector). Monotonicity of detection: a call of detect returns,
\* and leaves as the internal phase, a phase at the same or a later position
\* of the canonical ordering than the internal phase it started from; the
\* internal phase moves to an earlier position only in a call of reset,
\* set_phase or sync_to_phase.
C1_DetectMonotonic ==
    [][ /\ last_op' = "detect" =>
              /\ PhaseIndex(detected') >= PhaseIndex(detector_phase)
              /\ detector_phase' = detected'
        /\ PhaseIndex(detector_phase') < PhaseIndex(detector_phase) =>
              last_op' \in { "reset", "set_phase", "sync_to_phase" } ]_vars

\* C1 witness: detect has advanced the detector (descent to approach), and
\* the snapshot it ran on would have sent a stateless detector elsewhere.
C1_Witness ==
    /\ last_op = "detect"
    /\ detected = "approach"
    /\ detector_phase = "approach"
    /\ sim_state = BelowTenThousand

\* C2 (SpecDetect). Transition table conformance and stability: detect
\* returns the table's successor of the internal phase exactly when that
\* phase's advance condition holds in the snapshot, and the phase unchanged
\* otherwise.
C2_TableConformance ==
    [][ last_op' = "detect" =>
          /\ detected' = IF AdvanceCondition(detector_phase, sim_state)
                         THEN TableSuccessor(detector_phase)
                         ELSE detector_phase
          /\ detector_phase' = detected' ]_vars

\* C2 witness: detect has run in after-start on a ground speed of exactly
\* 10 kt and has returned taxi.
C2_Witness ==
    /\ last_op = "detect"
    /\ detected = "taxi"
    /\ sim_state.ground_velocity = 10
    /\ ~sim_state.light_landing

\* C3 (Spec). Auto mode follows the detector: a telemetry update processed
\* in auto mode runs detect once on the snapshot, the active phase is then
\* the phase detect returned, and a phase that was left is in the history.
C3_AutoFollowsDetector ==
    [][ (last_op' = "on_state_update" /\ phase_mode = "auto") =>
          /\ detected' = Detect(detector_phase, sim_state)
          /\ detector_phase' = detected'
          /\ current_phase' = detected'
          /\ current_phase' # current_phase =>
                InHistory(current_phase, phase_history') ]_vars

\* C3 witness: a telemetry update in auto mode has moved the active phase
\* from cockpit preparation to before-start.
C3_Witness ==
    /\ last_op = "on_state_update"
    /\ phase_mode = "auto"
    /\ detected = "before_start"
    /\ current_phase = "before_start"
    /\ phase_history = << "cockpit_preparation" >>

\* C4 (Spec). Manual mode pins the phase: a telemetry update processed in
\* manual mode leaves the active phase, the mode, the history and the
\* detector's internal phase unchanged.
C4_ManualPinsPhase ==
    [][ (last_op' = "on_state_update" /\ phase_mode = "manual") =>
          UNCHANGED << current_phase, phase_mode, phase_history,
                       detector_phase >> ]_vars

\* C4 witness: a telemetry update has been processed in manual mode on a
\* snapshot on which the detector would have advanced, and it has set an
\* item's verified flag.
C4_Witness ==
    /\ last_op = "on_state_update"
    /\ phase_mode = "manual"
    /\ Detect(detector_phase, sim_state) # detector_phase
    /\ verified[<< "before_start", "beacon" >>] = "True"

\* C5 as stated (Spec), on WebSocket requests: starting in auto mode, with D
\* the phase detect would return from the internal phase before the
\* request, a set_phase message to X = D leaves mode auto and one to
\* Y # D leaves mode manual.
C5_AsStated ==
    [][ (last_op' = "ws_set_phase" /\ success' /\ phase_mode = "auto") =>
          phase_mode' = IF arg' = Detect(detector_phase, sim_state)
                        THEN "auto" ELSE "manual" ]_vars

\* C5 amended (Spec). Starting in auto mode, a WebSocket set_phase message
\* to X leaves mode auto exactly when X's own advance condition is false in
\* the current snapshot (detect, run from X, returns X), and manual
\* otherwise.
C5_ModeReconciliation ==
    [][ (last_op' = "ws_set_phase" /\ success' /\ phase_mode = "auto") =>
          phase_mode' = IF AdvanceCondition(arg', sim_state)
                        THEN "manual" ELSE "auto" ]_vars

\* C5 witness: from startup (auto, detector in cockpit preparation, which
\* is also what it would detect) a set_phase message to taxi has left mode
\* auto.
C5_Witness ==
    /\ n_ops = 1
    /\ last_op = "ws_set_phase"
    /\ arg = "taxi"
    /\ current_phase = "taxi"
    /\ phase_mode = "auto"

\* C6 (Spec). Explicit set-phase protocol: after a set-phase request to a
\* valid phase P, over WebSocket or REST, the active phase is P, the
\* detector has been set to P and has run detect once on the current
\* snapshot, and mode is auto if the detected phase equals P and manual
\* otherwise.
C6_SetPhaseProtocol ==
    (last_op \in SetPhaseOps /\ success) =>
        /\ current_phase = arg
        /\ detected = Detect(arg, sim_state)
        /\ detector_phase = detected
        /\ phase_mode = IF detected = arg THEN "auto" ELSE "manual"

\* C7 (Spec). Mode after next/previous: after a successful step, over REST
\* or WebSocket, mode is auto if the phase detected after the step (detect
\* run from the stepped-to phase on the current snapshot) equals the
\* stepped-to phase, and manual otherwise.
C7_ModeAfterStep ==
    (last_op \in StepOps /\ success) =>
        phase_mode = IF Detect(current_phase, sim_state) = current_phase
                     THEN "auto" ELSE "manual"

\* C8 (Spec). A successful next moves the active phase to its immediate
\* successor and appends the phase left behind to the history unless it is
\* already there; a successful previous moves the active phase to its
\* immediate predecessor and leaves the history unchanged.
C8_StepByOne ==
    [][ /\ (last_op' \in NextOps /\ success') =>
              /\ PhaseIndex(current_phase') = PhaseIndex(current_phase) + 1
              /\ phase_history' = IF InHistory(current_phase, phase_history)
                                  THEN phase_history
                                  ELSE Append(phase_history, current_phase)
        /\ (last_op' \in PrevOps /\ success') =>
              /\ PhaseIndex(current_phase') = PhaseIndex(current_phase) - 1
              /\ phase_history' = phase_history ]_vars

\* C8 witness: a next step from cockpit preparation to before-start has
\* succeeded while cockpit preparation was already in the history (which
\* ends with before-start, so nothing was appended).
C8_Witness ==
    /\ last_op \in NextOps
    /\ success
    /\ n_ops = 3
    /\ current_phase = "before_start"
    /\ phase_history = << "cockpit_preparation", "before_start" >>

\* C9 (Spec). next at the last phase and previous at the first are no-ops:
\* the store's call fails and the active phase, the mode, the history and
\* the detector's internal phase are as before the request.
C9_EndsAreNoOps ==
    [][ ( \/ last_op' \in NextOps /\ current_phase = "securing"
          \/ last_op' \in PrevOps /\ current_phase = "cockpit_preparation" ) =>
          /\ ~success'
          /\ UNCHANGED << current_phase, phase_mode, phase_history,
                          detector_phase >> ]_vars

\* C10 (Spec). History uniqueness: no phase id occurs twice in the history.
C10_HistoryUnique ==
    \A i, j \in 1..Len(phase_history) :
        i # j => phase_history[i] # phase_history[j]

\* C10 witness: a third set-phase request has left cockpit preparation for
\* taxi a second time; the history, which ends with taxi, did not take
\* cockpit preparation twice.
C10_Witness ==
    /\ last_op \in SetPhaseOps
    /\ arg = "taxi"
    /\ current_phase = "taxi"
    /\ phase_history = << "cockpit_preparation", "taxi" >>
    /\ n_ops = 3

\* Position of phase p in the record of first activations.
VisitIndex(p) == CHOOSE i \in 1..Len(visit_order) : visit_order[i] = p

\* C11 (SpecNavigation). History is in first-visit order: every entry of
\* the history has been the active phase since the last reset, and of any
\* two entries the one that stands earlier first became the active phase
\* earlier than the other did.
C11_FirstVisitOrder ==
    /\ \A i \in 1..Len(phase_history) : InHistory(phase_history[i], visit_order)
    /\ \A i, j \in 1..Len(phase_history) :
          i < j => VisitIndex(phase_history[i]) < VisitIndex(phase_history[j])

\* C12 (Spec). Backward navigation never appends to history: a previous
\* step, an explicit set-phase or a telemetry update that moves the active
\* phase to an earlier position of the canonical ordering adds no entry to
\* the history.
C12_BackwardNeverAppends ==
    [][ ( /\ last_op' \in PrevOps \cup SetPhaseOps \cup { "on_state_update" }
          /\ PhaseIndex(current_phase') < PhaseIndex(current_phase) ) =>
          phase_history' = phase_history ]_vars

ResetOps == { "rest_reset", "ws_reset" }
ItemOps ==
    { "rest_check_item", "rest_uncheck_item", "rest_toggle_item",
      "ws_check_item" }
ModeOps == { "rest_set_mode", "ws_set_mode" }

\* C13 (SpecItems). Reset and startup state: at startup and after a reset
\* request, REST or WebSocket, every item has checked = false and
\* verified = unknown, the active phase is cockpit preparation, mode is
\* auto, the history is empty and the detector's internal phase is cockpit
\* preparation.
C13_ResetState ==
    (last_op \in ResetOps \cup { "startup" }) =>
        /\ \A k \in ItemKeys : ~checked[k] /\ verified[k] = "None"
        /\ current_phase = "cockpit_preparation"
        /\ phase_mode = "auto"
        /\ phase_history = << >>
        /\ detector_phase = "cockpit_preparation"

\* C13 witness: a reset request has been served as the third operation,
\* after a beacon-on snapshot had been polled and processed (which had set
\* verified flags and moved phase, history and detector).
C13_Witness ==
    /\ last_op \in ResetOps
    /\ n_ops = 3
    /\ sim_state = BeaconOn
    /\ ~poll_pending

\* C14 (SpecItems). Item not found: a check, uncheck or toggle with a phase
\* id that has no checklist, or with an item id that is not in that
\* checklist, returns failure and leaves checked and verified of every item
\* unchanged.
C14_ItemNotFound ==
    [][ (last_op' \in ItemOps /\ arg' \notin ItemKeys) =>
          /\ ~success'
          /\ checked' = checked
          /\ verified' = verified ]_vars

\* C14 witness: a check request naming the beacon item under the taxi
\* checklist has failed while the beacon item of before-start was checked.
C14_Witness ==
    /\ last_op = "rest_check_item"
    /\ arg = << "taxi", "beacon" >>
    /\ ~success
    /\ checked[<< "before_start", "beacon" >>]

\* C15 (Spec). Invalid phase value: a set-phase request, REST or WebSocket,
\* with a string that is not a phase value signals a failure to the caller
\* and leaves the active phase, the mode, the history and the detector's
\* internal phase unchanged.
C15_InvalidPhaseRejected ==
    [][ (last_op' \in SetPhaseOps /\ arg' \notin Phase) =>
          /\ signal' = "error"
          /\ UNCHANGED << current_phase, phase_mode, phase_history,
                          detector_phase >> ]_vars

\* C16 (SpecItems). Mode-set has no side effect: a mode-set request to auto
\* or manual sets mode to the requested value and leaves the active phase,
\* the history, every item's state and the detector's internal phase
\* unchanged; a WebSocket set_mode with another value changes nothing.
C16_ModeSetOnly ==
    [][ last_op' \in ModeOps =>
          /\ phase_mode' = IF arg' \in { "auto", "manual" }
                           THEN arg' ELSE phase_mode
          /\ UNCHANGED << current_phase, phase_history, checked, verified,
                          detector_phase >> ]_vars

\* C16 witness: a set_mode message has set manual mode with an item
\* verified and the active phase past the first.
C16_Witness ==
    /\ last_op = "ws_set_mode"
    /\ arg = "manual"
    /\ phase_mode = "manual"
    /\ current_phase = "before_start"
    /\ verified[<< "before_start", "beacon" >>] = "True"

\* C17 (SpecItems). Pilot check actions never touch verification: a check,
\* uncheck or toggle request, found or not, leaves verified of every item
\* unchanged.
C17_CheckLeavesVerified ==
    [][ last_op' \in ItemOps => verified' = verified ]_vars

\* C17 witness: a check request has checked the beacon item, whose
\* verified flag telemetry had set to false.
C17_Witness ==
    /\ last_op = "rest_check_item"
    /\ success
    /\ checked[<< "before_start", "beacon" >>]
    /\ verified[<< "before_start", "beacon" >>] = "False"

\* C18 (SpecItems). Telemetry never acknowledges items: a telemetry update,
\* with or without an automatic phase change, leaves checked of every item
\* unchanged.
C18_TelemetryLeavesChecked ==
    [][ last_op' = "on_state_update" => checked' = checked ]_vars

\* C18 witness: a telemetry update has verified the beacon item, which is
\* not checked, and has advanced the phase, while another item is checked.
C18_Witness ==
    /\ last_op = "on_state_update"
    /\ current_phase = "before_start"
    /\ verified[<< "before_start", "beacon" >>] = "True"
    /\ ~checked[<< "before_start", "beacon" >>]
    /\ checked[<< "cockpit_preparation", "gear_pins" >>]

VerificationOps == { "update_verification", "update_verification_again" }

\* The comparison a rule stands for, on the value handed in.
RuleHolds(k, value) ==
    CASE VerifyCondition(k) = "eq"  -> value = VerifyValue(k)
      [] VerifyCondition(k) = "gte" -> value >= VerifyValue(k)
      [] VerifyCondition(k) = "lte" -> value <= VerifyValue(k)
      [] VerifyCondition(k) = "gt"  -> value > VerifyValue(k)
      [] VerifyCondition(k) = "lt"  -> value < VerifyValue(k)

\* C19 (SpecVerification). update_verification(var, value) sets verified
\* on every item of every checklist whose rule references var, the active
\* checklist or not, to the result of the rule's comparison, and leaves
\* verified unchanged on every item whose rule references another variable
\* or that has no rule.
C19_UpdateVerification ==
    [][ last_op' \in VerificationOps =>
          \A k \in ItemKeys :
             verified'[k] =
                IF HasVerify(k) /\ VerifyVar(k) = arg'[1]
                THEN IF RuleHolds(k, arg'[2]) THEN "True" ELSE "False"
                ELSE verified[k] ]_vars

\* C19 witness: with cockpit preparation active, a call for the parking
\* brake has verified the parking-brake items of the before-start and of
\* the parking checklist, and has left the beacon item, evaluated false
\* earlier, and the item without a rule as they were.
C19_Witness ==
    /\ last_op = "update_verification"
    /\ arg[1] = "BRAKE_PARKING_POSITION"
    /\ current_phase = "cockpit_preparation"
    /\ verified[<< "before_start", "parking_brake" >>] = "True"
    /\ verified[<< "parking", "parking_brake" >>] = "True"
    /\ verified[<< "before_start", "beacon" >>] = "False"
    /\ verified[<< "cockpit_preparation", "gear_pins" >>] = "None"

\* C20 (SpecVerification). Verification idempotence: a call of
\* update_verification that follows a call with the same variable name and
\* value leaves verified of every item as the first call left it.
C20_VerificationIdempotent ==
    [][ ( /\ last_op \in VerificationOps
          /\ last_op' \in VerificationOps
          /\ arg' = arg ) => verified' = verified ]_vars

\* C20 witness: update_verification has been called a second time in a row
\* for flaps at 10 percent; the taxi flaps item is verified and the
\* flaps-retracted item is not.
C20_Witness ==
    /\ last_op = "update_verification_again"
    /\ arg[1] = "TRAILING_EDGE_FLAPS_LEFT_PERCENT"
    /\ arg[2] = 10
    /\ verified[<< "taxi", "flaps" >>] = "True"
    /\ verified[<< "after_landing", "flaps_retracted" >>] = "False"

IsPrefix(h, g) == Len(h) <= Len(g) /\ SubSeq(g, 1, Len(h)) = h

\* C29 (Spec). History is append-only between resets: every operation
\* other than a reset leaves the previous history as a prefix of the new
\* one.
C29_HistoryAppendOnly ==
    [][ last_op' \notin ResetOps => IsPrefix(phase_history, phase_history') ]_vars

\* C29 witness: a previous step has taken the active phase back to cockpit
\* preparation, which stays recorded in the history.
C29_Witness ==
    /\ last_op \in PrevOps
    /\ success
    /\ current_phase = "cockpit_preparation"
    /\ phase_history = << "cockpit_preparation" >>

\* One engine runs: the larger of its N1 percentage and its raw N1 RPM
\* divided by 163.84 (0 for a zero RPM reading) exceeds 15, or its
\* combustion flag is set. Both sides of the comparison are multiplied by
\* 16384.
EngineRunsAsStated(n1, rpm, combustion) ==
    LET fromRpm == IF rpm = 0 THEN 0 ELSE rpm * 100
        larger  == IF n1 * 16384 >= fromRpm THEN n1 * 16384 ELSE fromRpm
    IN  larger > 15 * 16384 \/ combustion

AnyEngineRunsAsStated(s) ==
    \/ EngineRunsAsStated(s.eng1_n1, s.eng1_n1_rpm, s.eng1_combustion)
    \/ EngineRunsAsStated(s.eng2_n1, s.eng2_n1_rpm, s.eng2_combustion)

\* C30 (SpecEngines). Engine-running predicate: detect leaves before-start
\* for after-start, and stays in after-landing on a stationary aircraft,
\* exactly when for engine 1 or engine 2 max(N1 percentage, raw RPM /
\* 163.84) > 15 or the combustion flag is set; a reading of exactly 15 does
\* not count.
C30_EngineRunning ==
    [][ last_op' = "detect" =>
          /\ detector_phase = "before_start" =>
                ((detected' = "after_start") <=> AnyEngineRunsAsStated(sim_state))
          /\ detector_phase = "after_landing" =>
                ((detected' = "after_landing") <=> AnyEngineRunsAsStated(sim_state)) ]_vars

\* C30 witness: detect has left before-start on a snapshot in which only
\* the raw RPM of engine 1 (2458) is above the threshold, its N1 percentage
\* being exactly 15.
C30_Witness ==
    /\ last_op = "detect"
    /\ detected = "after_start"
    /\ sim_state.eng1_n1 = 15 /\ sim_state.eng1_n1_rpm = 2458
    /\ sim_state.eng2_n1 = 15 /\ sim_state.eng2_n1_rpm = 2457
    /\ ~sim_state.eng1_combustion /\ ~sim_state.eng2_combustion

WsStepOps == { "ws_next_phase", "ws_prev_phase" }

\* C24 (Spec). next/previous do not resynchronise the detector: the
\* re-detection that a next or previous step runs to decide the mode
\* starts from the detector's internal phase as it was before the request.
C24_StepDetectsFromInternalPhase ==
    [][ last_op' \in WsStepOps =>
          detected' = Detect(detector_phase, sim_state) ]_vars

\* After a next step the store is in manual mode, or the detector sits at
\* the active phase.
SteppedPast == phase_mode = "manual" \/ detector_phase = current_phase

\* C25 (Spec). A forward step is not instantly overridden: a successful
\* next step leaves the store in manual mode or the detector at the
\* stepped-to phase; a poll changes neither; and the telemetry update that
\* follows leaves the active phase where the step put it or at a later
\* phase.
C25_StepNotOverridden ==
    [][ /\ (last_op' \in NextOps /\ success') => SteppedPast'
        /\ last_op' = "poll_state" =>
              UNCHANGED << current_phase, phase_mode, detector_phase >>
        /\ (last_op' = "on_state_update" /\ SteppedPast) =>
              PhaseIndex(current_phase') >= PhaseIndex(current_phase) ]_vars

\* C25 witness: after a next request over REST to before-start, with the
\* detector still in cockpit preparation, a snapshot with the engines
\* started has been polled and processed, and the active phase is still
\* before-start.
C25_Witness ==
    /\ last_op = "on_state_update"
    /\ n_ops = 3
    /\ sim_state = EnginesStarted
    /\ current_phase = "before_start"
    /\ phase_history = << "cockpit_preparation" >>
    /\ phase_mode = "manual"
    /\ detector_phase = "cockpit_preparation"

\* C27 (Spec). Verification and detection of one telemetry update read
\* the same poll: when on_state_update runs, the client's stored state is
\* the snapshot the poll handed to the callback, the verification values
\* and the detection result are computed from that snapshot, and while a
\* callback is waiting no step replaces the stored state.
C27_SameSnapshot ==
    [][ /\ last_op' = "on_state_update" =>
              /\ sim_state = poll_result
              /\ verified' = VerifyFrom(verified, poll_result, 1)
              /\ AutoDetectEnabled(phase_mode) =>
                    detected' = Detect(detector_phase, poll_result)
        /\ (poll_pending /\ poll_pending') =>
              UNCHANGED << sim_state, poll_result >> ]_vars

\* C27 witness: the update for the beacon-on snapshot has verified the
\* beacon item and run detection, both from that snapshot, in auto mode.
C27_Witness ==
    /\ last_op = "on_state_update"
    /\ n_ops = 2
    /\ phase_mode = "auto"
    /\ sim_state = BeaconOn
    /\ poll_result = BeaconOn
    /\ verified[<< "before_start", "beacon" >>] = "True"
    /\ detected = Detect("cockpit_preparation", BeaconOn)

\* C28 (SpecItems). Telemetry gaps skip verification: in the update that
\* follows a poll in which a variable was unavailable, every item whose
\* rule reads that variable keeps its verified value.
C28_GapsSkipVerification ==
    [][ (last_op = "poll_state_missing" /\ last_op' = "on_state_update") =>
          \A k \in ItemKeys :
              (HasVerify(k) /\ VerifyVar(k) \in arg) =>
                  verified'[k] = verified[k] ]_vars

\* C21 (SpecFlightPlan). Injected values survive until clear: an item
\* that carries an injected value keeps its response, raw value and type
\* through every operation other than a clear or a further injection.
C21_InjectedSurvives ==
    [][ last_op' \notin { "rest_clear_flight_plan", "rest_fetch_flight_plan" }
          => \A k \in ItemKeys :
                simbrief_value[k] # "None" =>
                    /\ response'[k] = response[k]
                    /\ simbrief_value'[k] = simbrief_value[k]
                    /\ simbrief_type'[k] = simbrief_type[k] ]_vars

\* C22 (SpecFlightPlan). Inject/clear round trip: a clear leaves every
\* item's response equal to its template and its raw value and type
\* absent, and changes neither checked nor verified.
C22_ClearRestoresTemplates ==
    [][ last_op' = "rest_clear_flight_plan" =>
          /\ \A k \in ItemKeys :
                /\ response'[k] = ResponseTemplate(k)
                /\ simbrief_value'[k] = "None"
                /\ simbrief_type'[k] = "None"
          /\ checked' = checked
          /\ verified' = verified ]_vars

\* C22 witness: the fuel item was checked and carried an injected value
\* when the clear arrived; it is still checked and shows its template.
C22_Witness ==
    /\ last_op = "rest_clear_flight_plan"
    /\ << "cockpit_preparation", "fuel" >> \in arg
    /\ << "after_start", "pitch_trim" >> \in arg
    /\ checked[<< "cockpit_preparation", "fuel" >>]
    /\ response[<< "cockpit_preparation", "fuel" >>] = "___KG"
    /\ simbrief_value[<< "cockpit_preparation", "fuel" >>] = "None"

\* A step of the verification + detection + phase-advance block of a
\* telemetry update.
TelemetryBlockStep ==
    /\ loop'.telemetry # loop.telemetry
    /\ loop.telemetry \in { "polled", "verified", "detected" }

\* A state write of a pilot action.
PilotWriteStep ==
    /\ loop'.pilot # loop.pilot
    /\ loop.pilot \in { "receiving", "store_written", "synced", "detected" }

C31_ZeroAltitudeGuard ==
    [][ (last_op' \in { "detect", "detect_same" } /\ detector_phase = "descent")
          => /\ detected' =
                  IF /\ 0 < sim_state'.altitude_msl
                     /\ sim_state'.altitude_msl < 10000
                  THEN "approach" ELSE "descent"
             /\ detector_phase' = detected' ]_vars

\* C31 witness: detect has found descent with an MSL altitude of zero and
\* has stayed in descent.
C31_Witness ==
    /\ last_op = "detect"
    /\ arg = "descent"
    /\ sim_state.altitude_msl = 0
    /\ detected = "descent"
    /\ detector_phase = "descent"

\* C32 (SpecAir). Level-off cannot skip descent: no snapshot lets detect
\* advance both from after-takeoff and from cruise; a second detect call on
\* the snapshot of a call that found after-takeoff does not end in
\* descent; the detector enters approach only from descent, and enters
\* descent only on a snapshot with vertical speed < -500 above 10000 ft.
C32_LevelOffKeepsDescent ==
    [][ /\ ~(/\ Detect("after_takeoff", sim_state') = "cruise"
              /\ Detect("cruise", sim_state') = "descent")
        /\ (last_op = "detect" /\ arg = "after_takeoff"
                /\ last_op' = "detect_same") => detector_phase' # "descent"
        /\ (detector_phase' = "approach" /\ detector_phase # "approach")
              => detector_phase = "descent"
        /\ (detector_phase' = "descent" /\ detector_phase # "descent")
              => /\ sim_state'.vertical_speed < -500
                 /\ sim_state'.altitude_msl > 10000 ]_vars

\* C32 witness: a level flight above 10000 ft has been given to detect
\* twice; the detector went to cruise and stayed there.
C32_Witness ==
    /\ last_op = "detect_same"
    /\ arg = "cruise"
    /\ sim_state.altitude_msl = 10001
    /\ sim_state.vertical_speed = 0
    /\ detector_phase = "cruise"

\* C33 (SpecFlight). Single-step advance: a telemetry update advances the
\* detector's internal phase by at most one position of the canonical
\* ordering, the active phase follows it, and the phases that have been
\* active are an initial stretch of the canonical ordering, none skipped.
C33_SingleStepAdvance ==
    [][ last_op' = "polling_turn" =>
          /\ PhaseIndex(detector_phase') - PhaseIndex(detector_phase)
                \in { 0, 1 }
          /\ PhaseIndex(current_phase') - PhaseIndex(current_phase)
                \in { 0, 1 }
          /\ current_phase' = detector_phase'
          /\ IsPrefix(visit_order', CHECKLIST_PHASES) ]_vars

\* C33 witness: at the gate the first snapshot polled has beacon and
\* engines on; the update has moved the active phase to before-start only.
C33_Witness ==
    /\ last_op = "polling_turn"
    /\ sim_state = EnginesStarted
    /\ current_phase = "before_start"
    /\ phase_history = << "cockpit_preparation" >>
    /\ visit_order = << "cockpit_preparation", "before_start" >>

\* C34 (SpecReturn). Telemetry never moves the active phase backward: a
\* telemetry update leaves the active phase at the same or a later
\* position of the canonical ordering, also after pilot phase changes and
\* a switch back to auto mode.
C34_TelemetryNeverBackward ==
    [][ last_op' = "polling_turn" =>
          PhaseIndex(current_phase') >= PhaseIndex(current_phase) ]_vars

\* C35 (Spec). Store and detector agree after WebSocket phase actions in
\* auto: after a set_phase message naming a phase, or a next_phase or
\* prev_phase message whether or not the step succeeded, mode auto implies
\* that the active phase is the detector's internal phase.
C35_AgreeAfterWsPhaseAction ==
    [][ ( \/ last_op' = "ws_set_phase" /\ success'
          \/ last_op' \in WsStepOps ) =>
          (phase_mode' = "auto" => current_phase' = detector_phase') ]_vars

\* The operations that return the store to its initial phase, auto mode
\* and an empty history: a reset, and a save_settings that switches the
\* rule set.
Reinitialised ==
    \/ last_op' \in ResetOps
    \/ last_op' = "rest_save_settings" /\ training_mode' # training_mode

\* C36 (SpecSettings). Reinitialisation keeps detector and store
\* together: after a reset or a rule-set switch the store is in the
\* initial phase in auto mode with an empty history and the detector's
\* internal phase is the initial phase too.
C36_ReinitialisedTogether ==
    [][ Reinitialised =>
          /\ current_phase' = "cockpit_preparation"
          /\ phase_mode' = "auto"
          /\ phase_history' = << >>
          /\ detector_phase' = "cockpit_preparation" ]_vars

\* C37 (SpecItems). WebSocket check_item checks the item: a check_item
\* message naming an existing item leaves the item checked, as
\* ChecklistManager.check_item would, whatever it was before.
C37_WsCheckItemChecks ==
    [][ (last_op' = "ws_check_item" /\ arg' \in ItemKeys) =>
          /\ checked'[arg']
          /\ checked' = CheckItem(checked, arg'[1], arg'[2]) ]_vars

\* C38 (SpecVoice). Voice read-item does not drop the client: a
\* voice_read_item message naming an item of the current, non-empty
\* checklist is answered with voice_speak, the voice manager records the
\* item as the one expected, and the socket stays registered.
C38_VoiceReadItemAnswered ==
    [][ ( /\ last_op' = "ws_voice_read_item"
          /\ << current_phase, arg'[2] >> \in ItemKeys )
        => /\ ws_reply'[arg'[1]] = "voice_speak"
           /\ voice_expected' = arg'[2]
           /\ arg'[1] \in connections'
           /\ signal' # "disconnect" ]_vars

\* C39 (SpecSockets). Broadcast removes exactly the dead connections: a
\* broadcast step removes from _connections only connections whose send
\* raised in that broadcast; when the broadcast ends none of them is
\* registered, every other registered connection stays, and so does a
\* connection registered after the snapshot was taken.
C39_BroadcastRemovesExactlyDead ==
    [][ /\ last_op' \in { "broadcast_start", "broadcast_send" } =>
             connections' = connections
        /\ last_op' = "broadcast_send" /\ arg'[3] = "raised" =>
             /\ sockets[arg'[2]] # "open"
             /\ arg'[2] \in broadcasts'[arg'[1]].dead
        /\ last_op' = "broadcast_remove_dead" =>
             /\ connections \ connections' \subseteq arg'.dead
             /\ connections' \intersect arg'.dead = {}
             /\ connections \ arg'.dead \subseteq connections'
             /\ connections' \subseteq connections
             /\ connections \ arg'.snapshot \subseteq connections' ]_vars

\* A broadcast has ended whose sends raised for a connection, while a
\* connection registered during the sends is still registered.
C39_Witness ==
    /\ last_op = "broadcast_remove_dead"
    /\ arg.dead # {}
    /\ arg.dead \intersect connections = {}
    /\ connections \ arg.snapshot # {}

====
